---- MODULE Spec2Model ----
(***************************************************************************)
(* Model of the agent-ps mailbox pipeline: FolderWatcher (chokidar         *)
(* callbacks -> parseFile -> Folder Events), MessageRouter (findRoute,     *)
(* routeMessage), MessageProcessor (handleEvent, processMessage) and the   *)
(* message_statuses table written by updateMessageStatus.                  *)
(*                                                                         *)
(* JavaScript runs each callback to its next await without interruption,   *)
(* so one action is one such run: from the resumption of a promise to the  *)
(* next suspension, every synchronous call it makes included.              *)
(***************************************************************************)
EXTENDS Integers, Sequences, FiniteSets, TLC

VARIABLES
    files,        \* the mailbox directories: path -> the file's content, if it exists
    fsOps,        \* number of file-system operations so far
    monitors,     \* every FSWatcher chokidar.watch returned: endpoint id, open or closed
    watchers,     \* FolderWatcher.watchers: the Map's entries <<endpoint id, monitor>>, in order
    isRunning,    \* FolderWatcher.isRunning
    loops,        \* start() and stop() calls suspended at an await
    lifecycleCalls, \* number of start() and stop() calls so far
    history,      \* the start() calls made and the stop() calls resolved, in order
    tasks,        \* handleFile calls in flight (suspended in parseFile), in callback order
    events,       \* every Folder Event emitted on 'message': path -> its events, in order
    flows,        \* processMessage calls, one per created event, in start order
    store,        \* table message_statuses: id -> the row of that id, if any
    statusCalls,  \* every updateMessageStatus call of the processor: id -> <<flow, row written>>, in order
    invocations,  \* every Responder invocation: <<flow, handler id>>, in call order
    routerConfig, \* MessageRouter.config
    found,        \* findRoute calls made directly on the router: query -> result
    watcherErrors, \* every failure an underlying monitor raised, in order
    errorLog,     \* what handleError wrote with console.error, in order
    parseConfig,  \* the FolderConfig of a FolderWatcher used on its own
    parseResults, \* parseFile run on a read file: <<path, content>> -> its outcome
    dirs,         \* the directories under the mailbox root that exist
    writeLog,     \* every writeFile that took effect: path, text and write() call, in order
    writes,       \* MessageWriter.write calls, in call order
    storeLog,     \* calls of the status store's functions made from outside, with what they returned
    routeCalls,   \* router.routeMessage calls made from outside, in call order
    ignoreInitial \* the ignoreInitial option the build's watchEndpoint passes to chokidar.watch

vars == <<files, fsOps, monitors, watchers, isRunning, loops, lifecycleCalls, history, tasks, events, flows, store, statusCalls,
          invocations, routerConfig, found, watcherErrors, errorLog,
          parseConfig, parseResults, dirs, writeLog, writes, storeLog, routeCalls, ignoreInitial>>

\* An optional value is a sequence of at most one element; an optional string
\* is the string itself, or None.
Absent == <<>>
Some(x) == <<x>>
None == "<undefined>"

\* ---------------------------------------------------------------- bounds
\* Most file-system operations (a file written or removed) in a behaviour.
MaxFsOps == 2
\* Most start() and stop() calls in a behaviour.
MaxLifecycleCalls == 1
\* Most start() and stop() calls, and most files written, in a behaviour of
\* the lifecycle specification.
MaxWatcherCalls == 3
MaxWatcherFsOps == 1
\* Most files written in a behaviour of the specification with fairness.
MaxLiveFsOps == 2
\* Most failures the underlying monitors raise in a behaviour.
MaxWatchErrors == 1
\* Most MessageWriter.write calls in a behaviour.
MaxWrites == 2
\* Longest route list drawn for the router's own specification.
MaxRoutes == 3

\* ------------------------------------------------------- router: findRoute
Range(s) == {s[i] : i \in DOMAIN s}

\* route.priority ?? 0
Prio(route) == IF route.priority = Absent THEN 0 ELSE route.priority[1]

\* Array.prototype.sort is stable: an element goes after every element the
\* comparator does not put behind it, i.e. after all of priority >= its own.
RECURSIVE InsertByPriority(_, _)
InsertByPriority(route, sorted) ==
    IF sorted = <<>> THEN <<route>>
    ELSE IF Prio(Head(sorted)) >= Prio(route)
         THEN <<Head(sorted)>> \o InsertByPriority(route, Tail(sorted))
         ELSE <<route>> \o sorted

RECURSIVE SortByPriority(_)
SortByPriority(routes) ==
    IF routes = <<>> THEN <<>>
    ELSE InsertByPriority(routes[Len(routes)],
                          SortByPriority(SubSeq(routes, 1, Len(routes) - 1)))

EndpointMatch(route, endpoint) == route.endpoint = "*" \/ route.endpoint = endpoint

\* route.type === '*' || route.type === (messageType ?? '*')
TypeMatch(route, messageType) ==
    route.type = "*" \/ route.type = (IF messageType = None THEN "*" ELSE messageType)

RECURSIVE FirstMatch(_, _, _)
FirstMatch(sortedRoutes, endpoint, messageType) ==
    IF sortedRoutes = <<>> THEN Absent
    ELSE IF EndpointMatch(Head(sortedRoutes), endpoint)
            /\ TypeMatch(Head(sortedRoutes), messageType)
         THEN Some(Head(sortedRoutes))
         ELSE FirstMatch(Tail(sortedRoutes), endpoint, messageType)

findRoute_DeclarationOrder(config, endpoint, messageType) ==
    FirstMatch(config.routes, endpoint, messageType)
findRoute(config, endpoint, messageType) ==
    FirstMatch(SortByPriority(config.routes), endpoint, messageType)

\* findRoute sorts a copy, [...this.config.routes]: the configured list stays as it is.
RoutesAfterFindRoute(routes) == routes

\* ------------------------------------------------ configuration and inputs
\* FrontmatterField: name and required flag (the declared type is never read).
Field(name, required) == [name |-> name, required |-> required]

Endpoint(id, direction, requiredFrontmatter) ==
    [id |-> id, path |-> id, direction |-> direction,
     requiredFrontmatter |-> requiredFrontmatter]

defaultFolderConfig ==
    [endpoints |-> << Endpoint("inbox", "inbox", <<>>),
                      Endpoint("outbox", "outbox", <<>>),
                      Endpoint("bugs", "inbox", <<Field("severity", TRUE)>>),
                      Endpoint("feature-requests", "inbox", <<>>) >>,
     defaultFrontmatter |-> << Field("id", TRUE), Field("timestamp", TRUE),
                               Field("from", FALSE), Field("replyTo", FALSE) >>]

getInboxEndpoints_OutboxOnly(config) ==
    SelectSeq(config.endpoints, LAMBDA e : e.direction = "outbox")
\* getInboxEndpoints: config.endpoints.filter(inbox or bidirectional)
getInboxEndpoints(config) ==
    SelectSeq(config.endpoints,
              LAMBDA e : e.direction = "inbox" \/ e.direction = "bidirectional")

\* The configuration the MessageProcessor hands to the FolderWatcher it owns.
watchConfig ==
    [defaultFolderConfig EXCEPT !.endpoints = getInboxEndpoints(defaultFolderConfig)]

\* File paths, relative to the mailbox root (so relative(rootPath, p) is p itself).
\* PathInfo gives the directory chokidar reports the path under and path.basename.
PathInfo ==
    [p \in {"inbox/a.md", "bugs/b.md", "inbox/n.txt", "outbox/o.md"} |->
        CASE p = "inbox/a.md"  -> [dir |-> "inbox",  name |-> "a.md",  md |-> TRUE]
          [] p = "bugs/b.md"   -> [dir |-> "bugs",   name |-> "b.md",  md |-> TRUE]
          [] p = "inbox/n.txt" -> [dir |-> "inbox",  name |-> "n.txt", md |-> FALSE]
          [] p = "outbox/o.md" -> [dir |-> "outbox", name |-> "o.md",  md |-> TRUE]]

Paths == DOMAIN PathInfo

isMarkdownFile_Any(path) == TRUE
\* const isMarkdownFile = (path) => path.endsWith('.md')
isMarkdownFile(path) == PathInfo[path].md

basename_NeverEmpty(path) == IF path = "" THEN "unnamed" ELSE PathInfo[path].name
\* path.basename: the last portion of the path, which the path '' does not have.
basename(path) == IF path = "" THEN "" ELSE PathInfo[path].name

\* The frontmatter gray-matter returns: key -> value, None for a key not present.
Frontmatter(id, timestamp, severity, type) ==
    [id |-> id, timestamp |-> timestamp, from |-> None, replyTo |-> None,
     severity |-> severity, type |-> type]

\* The file contents the environment writes. A file no callback ever reads (not
\* markdown, or in a directory that is never watched) gets one content only.
Contents ==
    { [frontmatter |-> Frontmatter("m1", "t", None, None)],
      [frontmatter |-> Frontmatter("m2", "t", "high", "question")],
      [frontmatter |-> Frontmatter(None, "t", None, "task")],
      [frontmatter |-> Frontmatter("", "t", "low", "task")] }

ContentsFor(path) ==
    IF isMarkdownFile(path)
       /\ \E e \in Range(watchConfig.endpoints) : e.path = PathInfo[path].dir
    THEN Contents
    ELSE { [frontmatter |-> Frontmatter("m1", "t", None, None)] }

\* Router configurations a MessageProcessor is constructed with.
Route(endpoint, type, handlerType, handlerId, priority) ==
    [endpoint |-> endpoint, type |-> type, handlerType |-> handlerType,
     handlerId |-> handlerId, priority |-> priority]

defaultRouterConfig ==
    [routes |-> << Route("bugs", "*", "agent", "conciergeAgent", Some(10)),
                   Route("feature-requests", "*", "agent", "conciergeAgent", Some(10)),
                   Route("*", "question", "workflow", "messageWorkflow", Some(5)),
                   Route("*", "task", "workflow", "messageWorkflow", Some(5)) >>,
     defaultHandler |-> [handlerType |-> "agent", handlerId |-> "conciergeAgent"]]

\* The routerConfig argument of new MessageProcessor(config, mastra, routerConfig):
\* a configuration in which some handlers are registered with the Mastra
\* instance and some (bugAgent, taskWorkflow) are not.
processorRouterConfig ==
    [routes |-> << Route("bugs", "task", "agent", "bugAgent", Some(10)),
                   Route("*", "question", "workflow", "messageWorkflow", Some(5)),
                   Route("*", "task", "workflow", "taskWorkflow", Some(5)) >>,
     defaultHandler |-> [handlerType |-> "agent", handlerId |-> "conciergeAgent"]]

\* new Mastra({workflows: {...}, agents: {...}})
mastraAgents == {"weatherAgent", "conciergeAgent"}
mastraWorkflows == {"weatherWorkflow", "messageWorkflow"}

\* ---------------------------------------------------- router: routeMessage
\* A text is the sequence of the pieces a template literal concatenates.
Text(str) == <<str>>

ResolveHandler_AlwaysDefault(config, endpoint, messageType) == config.defaultHandler
\* const handler = route ?? this.config.defaultHandler
ResolveHandler(config, endpoint, messageType) ==
    LET route == findRoute(config, endpoint, messageType)
    IN  IF route = Absent THEN config.defaultHandler
        ELSE [handlerType |-> route[1].handlerType, handlerId |-> route[1].handlerId]

\* this.mastra.getWorkflow(id) / this.mastra.getAgent(id) returned a handler
HandlerLive(handler) ==
    IF handler.handlerType = "workflow"
    THEN handler.handlerId \in mastraWorkflows
    ELSE handler.handlerId \in mastraAgents

\* An Error object: its message, and what String(error) gives.
ErrorObject(message) ==
    [isError |-> TRUE, message |-> message, string |-> <<"Error: ">> \o message]
\* A thrown value that is no Error (a string).
ThrownString(str) == [isError |-> FALSE, message |-> Absent, string |-> <<str>>]

HandlerNotFound_AgentMessage(handler) ==
    ErrorObject(<<"Agent not found: ", handler.handlerId>>)
\* throw new Error(`Workflow not found: ${id}`) / `Agent not found: ${id}`
HandlerNotFound(handler) ==
    IF handler.handlerType = "workflow"
    THEN ErrorObject(<<"Workflow not found: ", handler.handlerId>>)
    ELSE ErrorObject(<<"Agent not found: ", handler.handlerId>>)

\* JavaScript values a workflow run hands back in result.summary.
JsString(str) == [type |-> "string", repr |-> str]
JsNumber(repr) == [type |-> "number", repr |-> repr]
\* String(value)
String(value) == Text(value.repr)

\* What the Responders answer: agent.generate resolves to {text}; run.start
\* resolves to null, to an object without a summary key, or to one with it.
AgentResponses == { [text |-> Text("Agent response")] }
WorkflowResults ==
    { [isObject |-> FALSE, summary |-> Absent],
      [isObject |-> TRUE,  summary |-> Absent],
      [isObject |-> TRUE,  summary |-> Some(JsString("Workflow result"))] }
ResponderFailures == { ErrorObject(Text("Responder error")), ThrownString("raw failure") }

WorkflowSummary_NoFallback(result) ==
    IF result.isObject /\ result.summary # Absent
    THEN String(result.summary[1])
    ELSE Text("undefined")
\* typeof result === 'object' && result !== null && 'summary' in result
\*   ? String(result.summary) : 'Processed via workflow'
WorkflowSummary(result) ==
    IF result.isObject /\ result.summary # Absent
    THEN String(result.summary[1])
    ELSE Text("Processed via workflow")

\* The {handler, result} routeMessage resolves to, by handler kind.
RouteResults(handler) ==
    IF handler.handlerType = "workflow"
    THEN { [handler |-> handler.handlerId, result |-> WorkflowSummary(r)] :
             r \in WorkflowResults }
    ELSE { [handler |-> handler.handlerId, result |-> r.text] : r \in AgentResponses }

\* ------------------------------------------------------------ status store
MessageIds == {"m1", "m2"} \cup Paths

\* new Date().toISOString(): a logical clock that advances with each created
\* event the processor takes up.
Clock == Len(flows)

updateMessageStatus_Merge(table, status) ==
    IF table[status.id] = Absent THEN [table EXCEPT ![status.id] = Some(status)]
    ELSE LET old == table[status.id][1]
         IN  [table EXCEPT ![status.id] =
                Some([status EXCEPT
                        !.processedAt = IF @ = Absent THEN old.processedAt ELSE @,
                        !.error = IF @ = Absent THEN old.error ELSE @,
                        !.summary = IF @ = Absent THEN old.summary ELSE @])]
\* INSERT OR REPLACE INTO message_statuses ... VALUES (status.id, ...): the row
\* is a snapshot of the status object, absent optional fields stored as null.
updateMessageStatus(table, status) == [table EXCEPT ![status.id] = Some(status)]

\* DELETE FROM message_statuses
DeleteAll(table) == [id \in DOMAIN table |-> Absent]

\* The rows of the table: id is the primary key, so one row at most per id.
Rows(table) == { table[id][1] : id \in {i \in DOMAIN table : table[i] # Absent} }

\* row.processed_at as string | undefined: the cast converts nothing, so a
\* column holding NULL comes back as null and any other as its text.
ColumnValue(column) == [isNull |-> column = Absent, value |-> column]

\* The object getMessageStatus and getAllMessageStatuses build from a row.
RowToStatus(row) ==
    [id |-> row.id, status |-> row.status, endpoint |-> row.endpoint,
     filename |-> row.filename, createdAt |-> row.createdAt,
     processedAt |-> ColumnValue(row.processedAt),
     error |-> ColumnValue(row.error),
     summary |-> ColumnValue(row.summary)]

\* SELECT * FROM message_statuses WHERE id = ?; no row gives undefined,
\* otherwise rows[0] is converted.
getMessageStatus(table, id) ==
    IF table[id] = Absent THEN Absent ELSE Some(RowToStatus(table[id][1]))

\* The z.enum of status values, and undefined for a call without a filter.
StatusValues == {"pending", "processing", "completed", "failed"}
Filters == StatusValues \cup {None}

\* WHERE status = ?, which is part of the statement only for a truthy filterStatus
Selected_Unfiltered(table, filterStatus) == Rows(table)
Selected(table, filterStatus) ==
    IF filterStatus = None THEN Rows(table)
    ELSE {row \in Rows(table) : row.status = filterStatus}

\* ORDER BY created_at DESC: every arrangement of the rows in which created_at
\* never increases; rows with equal created_at come in whatever order the
\* engine produces.
OrderByCreatedAtDesc(rows) ==
    { s \in [1..Cardinality(rows) -> rows] :
        /\ \A i, j \in DOMAIN s : i # j => s[i] # s[j]
        /\ \A i, j \in DOMAIN s : i < j => s[i].createdAt >= s[j].createdAt }

\* getAllMessageStatuses(filterStatus): the lists it can resolve to,
\* result.rows.map(row => ...) of the selected rows in order.
getAllMessageStatuses(table, filterStatus) ==
    { [i \in DOMAIN s |-> RowToStatus(s[i])] :
        s \in OrderByCreatedAtDesc(Selected(table, filterStatus)) }

\* -------------------------------------------------------- message processor
\* The processor's share of the state, as one value the handlers transform.
ProcessorState ==
    [store |-> store, statusCalls |-> statusCalls, flows |-> flows,
     invocations |-> invocations]

\* A call updateMessageStatus(status) made by flow f: the statement runs on the
\* table and the call is recorded.
WriteStatus(ps, f, status) ==
    [ps EXCEPT !.store = updateMessageStatus(ps.store, status),
               !.statusCalls[status.id] = Append(@, <<f, status>>)]

FailedStatus_StringOnly(status, thrown, time) ==
    [status EXCEPT !.status = "failed",
                   !.processedAt = Some(time),
                   !.error = thrown.string]
\* The catch block of processMessage: status.status = 'failed', processedAt,
\* error = error instanceof Error ? error.message : String(error).
FailedStatus(status, thrown, time) ==
    [status EXCEPT !.status = "failed",
                   !.processedAt = Some(time),
                   !.error = IF thrown.isError THEN thrown.message ELSE thrown.string]

CompletedStatus_SummaryIsHandler(status, routed, time) ==
    [status EXCEPT !.status = "completed",
                   !.processedAt = Some(time),
                   !.summary = Text(routed.handler)]
CompletedStatus_Restamped(status, routed, time) ==
    [status EXCEPT !.status = "completed",
                   !.createdAt = time,
                   !.processedAt = Some(time),
                   !.summary = routed.result]
\* The success path: status.status = 'completed', processedAt, summary = result.
CompletedStatus(status, routed, time) ==
    [status EXCEPT !.status = "completed",
                   !.processedAt = Some(time),
                   !.summary = routed.result]

\* The initial status object: status 'pending', no optional field set.
PendingStatus(message, filename, time) ==
    [id |-> message.id, status |-> "pending",
     endpoint |-> message.endpointId, filename |-> filename,
     createdAt |-> time,
     processedAt |-> Absent, error |-> Absent, summary |-> Absent]

ProcessingStatus_Skipped(status) == status
\* status.status = 'processing'
ProcessingStatus(status) == [status EXCEPT !.status = "processing"]

\* processMessage(message) from its call to its first suspension, at
\* await this.router.routeMessage(...): the pending write, the filename check,
\* the processing write, and routeMessage up to its own first await (handler
\* resolved and looked up, Responder invoked).
processMessage(ps, config, message) ==
    LET f == Len(ps.flows) + 1
        filename == basename(message.filePath)
        messageType == message.frontmatter.type
        pending == PendingStatus(message, filename, Clock)
        ps1 == WriteStatus(ps, f, pending)
        processing == ProcessingStatus(pending)
        ps2 == WriteStatus(ps1, f, processing)
        handler == ResolveHandler(config, message.endpointId, messageType)
        flow == [message |-> message, status |-> processing, handler |-> handler,
                 pc |-> "awaiting", routed |-> Absent, thrown |-> Absent]
    IN  IF filename = ""
        THEN LET thrown == ErrorObject(Text("Could not extract filename from path"))
                 failed == FailedStatus(pending, thrown, Clock)
             IN  [WriteStatus(ps1, f, failed) EXCEPT
                    !.flows = Append(ps.flows,
                                [flow EXCEPT !.status = failed, !.pc = "done",
                                             !.thrown = Some(thrown)])]
        ELSE IF HandlerLive(handler)
        THEN [ps2 EXCEPT !.flows = Append(ps.flows, flow),
                         !.invocations = Append(ps.invocations, <<f, handler.handlerId>>)]
        ELSE [ps2 EXCEPT !.flows = Append(ps.flows,
                            [flow EXCEPT !.pc = "rejected",
                                         !.thrown = Some(HandlerNotFound(handler))])]

ProcessedEventTypes_WithUpdated == {"message:created", "message:updated"}
\* The event types handleEvent passes on to processMessage.
ProcessedEventTypes == {"message:created"}

\* handleEvent(event): a created event starts processMessage; an updated, a
\* deleted and an error event are logged and nothing else.
handleEvent(ps, config, event) ==
    IF event.type \in ProcessedEventTypes
    THEN processMessage(ps, config, event.message)
    ELSE ps

\* this.emit('message', event) for each event of a sequence, in order: the
\* event goes out and the processor's listener, handleEvent, runs to its
\* first suspension.
\* The file an event is about.
EventPath(event) ==
    IF event.type \in {"message:created", "message:updated"}
    THEN event.message.filePath ELSE event.filePath

RECURSIVE HandleAll(_, _, _)
HandleAll(ps, config, evs) ==
    IF evs = <<>> THEN ps
    ELSE HandleAll(handleEvent(ps, config, Head(evs)), config, Tail(evs))

EmitMessages(evs) ==
    LET ps == HandleAll(ProcessorState, routerConfig, evs)
    IN  /\ events' = [path \in Paths |->
                        events[path] \o SelectSeq(evs, LAMBDA e : EventPath(e) = path)]
        /\ store' = ps.store
        /\ statusCalls' = ps.statusCalls
        /\ flows' = ps.flows
        /\ invocations' = ps.invocations

\* ------------------------------------------------------------ folder watcher
allRequired_DefaultsOnly(config, endpoint) ==
    SelectSeq(config.defaultFrontmatter, LAMBDA fld : fld.required)
\* The required fields parseFile checks: the mailbox defaults flagged required,
\* then the endpoint's own.
allRequired(config, endpoint) ==
    SelectSeq(config.defaultFrontmatter, LAMBDA fld : fld.required)
      \o SelectSeq(endpoint.requiredFrontmatter, LAMBDA fld : fld.required)

RECURSIVE FirstMissing_Falsy(_, _)
FirstMissing_Falsy(fields, frontmatter) ==
    IF fields = <<>> THEN Absent
    ELSE IF frontmatter[Head(fields).name] \in {None, ""} THEN Some(Head(fields).name)
    ELSE FirstMissing_Falsy(Tail(fields), frontmatter)

\* for (const field of allRequired) if (!(field.name in frontmatter)) throw ...
RECURSIVE FirstMissing(_, _)
FirstMissing(fields, frontmatter) ==
    IF fields = <<>> THEN Absent
    ELSE IF frontmatter[Head(fields).name] = None THEN Some(Head(fields).name)
    ELSE FirstMissing(Tail(fields), frontmatter)

MessageId_PathOnly(frontmatter, filePath) == filePath
\* id: (frontmatter.id as string) || relative(this.config.rootPath, filePath)
MessageId(frontmatter, filePath) ==
    IF frontmatter.id = None \/ frontmatter.id = "" THEN filePath ELSE frontmatter.id

\* parseFile after readFile and stat have both resolved: the validation and
\* the Message it returns, or the Error it throws.
parseFile(config, endpoint, filePath, content) ==
    LET missing == FirstMissing(allRequired(config, endpoint), content.frontmatter)
    IN  IF missing # Absent
        THEN [ok |-> FALSE,
              thrown |-> ErrorObject(<<"Missing required frontmatter field: ", missing[1]>>)]
        ELSE [ok |-> TRUE,
              message |-> [id |-> MessageId(content.frontmatter, filePath),
                           filePath |-> filePath,
                           endpointId |-> endpoint.id,
                           frontmatter |-> content.frontmatter]]

\* readFile / stat reject when the file is not there.
NoSuchFile(syscall, filePath) ==
    ErrorObject(<<"ENOENT: no such file or directory, ", syscall, " ", filePath>>)

MessageEvent_AlwaysCreated(action, message) ==
    [type |-> "message:created", message |-> message]
\* The event handleFile emits when parseFile returned.
MessageEvent(action, message) ==
    [type |-> IF action = "created" THEN "message:created" ELSE "message:updated",
     message |-> message]

\* The event handleFile's catch block emits:
\* error instanceof Error ? error.message : String(error).
ErrorEvent(filePath, thrown) ==
    [type |-> "error", filePath |-> filePath,
     error |-> IF thrown.isError THEN thrown.message ELSE thrown.string]

DeletedEvent_NoEndpoint(filePath, endpoint) ==
    [type |-> "message:deleted", filePath |-> filePath, endpointId |-> None]
\* handleDelete's event.
DeletedEvent(filePath, endpoint) ==
    [type |-> "message:deleted", filePath |-> filePath, endpointId |-> endpoint.id]

EndpointById(config, id) ==
    CHOOSE e \in Range(config.endpoints) : e.id = id

\* The open monitors watching the directory a path lies in.
MonitorsOf(path) ==
    {m \in DOMAIN monitors :
        /\ monitors[m].open
        /\ EndpointById(watchConfig, monitors[m].endpoint).path = PathInfo[path].dir}

\* The open monitors of a path's directory, in the order they were created.
MonitorSeq(path) ==
    SelectSeq([m \in 1..Len(monitors) |-> m], LAMBDA m : m \in MonitorsOf(path))

lifecycleVars == <<monitors, watchers, isRunning, loops, lifecycleCalls, history>>
processorVars == <<store, statusCalls, flows, invocations>>
routerVars == <<routerConfig, found>>
writerVars == <<dirs, writeLog, writes>>
serviceVars == <<watcherErrors, errorLog, parseConfig, parseResults, writerVars, storeLog, routeCalls, ignoreInitial>>

\* handleFile(action, path, endpoint) from its call to its first suspension,
\* inside parseFile at await readFile(...); the number of events emitted for
\* the path before the callback fired is noted with the call.
NewTask(action, path, m) ==
    [action |-> action, filePath |-> path, endpoint |-> monitors[m].endpoint,
     pc |-> "read", content |-> Absent, event |-> 0, fired |-> Len(events[path])]

\* A file is written. Each open monitor of its directory fires 'add' for a new
\* file and 'change' for an existing one; the callback drops paths that are
\* not markdown files and calls handleFile for the others.
FsWrite(path, content) ==
    /\ fsOps' = fsOps + 1
    /\ files' = [files EXCEPT ![path] = Some(content)]
    /\ LET action == IF files[path] = Absent THEN "created" ELSE "updated"
           fired == IF isMarkdownFile(path) THEN MonitorSeq(path) ELSE <<>>
       IN  tasks' = tasks \o [i \in 1..Len(fired) |-> NewTask(action, path, fired[i])]
    /\ UNCHANGED <<events, lifecycleVars, processorVars, routerVars, serviceVars>>

\* A file is removed. Each open monitor of its directory fires 'unlink'; the
\* callback calls handleDelete for a markdown path, which emits at once.
FsUnlink(path) ==
    /\ files[path] # Absent
    /\ fsOps' = fsOps + 1
    /\ files' = [files EXCEPT ![path] = Absent]
    /\ LET fired == IF isMarkdownFile(path) THEN MonitorSeq(path) ELSE <<>>
       IN  EmitMessages([i \in 1..Len(fired) |->
                DeletedEvent(path, EndpointById(watchConfig, monitors[fired[i]].endpoint))])
    /\ UNCHANGED <<tasks, lifecycleVars, routerVars, serviceVars>>

\* readFile settles for task t. It resolves with the file as it is now and
\* parseFile suspends again at await stat(...); or it rejects, and handleFile's
\* catch block emits the error event.
ReadFileSettles(t) ==
    /\ tasks[t].pc = "read"
    /\ LET path == tasks[t].filePath
       IN  IF files[path] # Absent
           THEN /\ tasks' = [tasks EXCEPT ![t].pc = "stat", ![t].content = files[path]]
                /\ UNCHANGED <<events, processorVars>>
           ELSE /\ tasks' = [tasks EXCEPT ![t].pc = "done", ![t].event = Len(events[path]) + 1]
                /\ EmitMessages(<<ErrorEvent(path, NoSuchFile("open", path))>>)
    /\ UNCHANGED <<files, fsOps, lifecycleVars, routerVars, serviceVars>>

\* stat settles for task t. It resolves, parseFile validates and handleFile
\* emits the created/updated event or, from its catch block, the error event;
\* or it rejects and the catch block emits the error event.
StatSettles(t) ==
    /\ tasks[t].pc = "stat"
    /\ LET path == tasks[t].filePath
           parsed == parseFile(watchConfig, EndpointById(watchConfig, tasks[t].endpoint),
                               path, tasks[t].content[1])
       IN  /\ tasks' = [tasks EXCEPT ![t].pc = "done", ![t].event = Len(events[path]) + 1]
           /\ IF files[path] = Absent
              THEN EmitMessages(<<ErrorEvent(path, NoSuchFile("stat", path))>>)
              ELSE IF parsed.ok
              THEN EmitMessages(<<MessageEvent(tasks[t].action, parsed.message)>>)
              ELSE EmitMessages(<<ErrorEvent(path, parsed.thrown)>>)
    /\ UNCHANGED <<files, fsOps, lifecycleVars, routerVars, serviceVars>>

\* ------------------------------------------------- processor: flow resumption
SetProcessor(ps) ==
    /\ store' = ps.store
    /\ statusCalls' = ps.statusCalls
    /\ flows' = ps.flows
    /\ invocations' = ps.invocations

ResumeFlow_DroppedWhenStopped(ps, f, ok, outcome) ==
    IF ~isRunning
    THEN [ps EXCEPT !.flows[f].pc = "done"]
    ELSE LET status == IF ok THEN CompletedStatus(ps.flows[f].status, outcome, Clock)
                       ELSE FailedStatus(ps.flows[f].status, outcome, Clock)
         IN  [WriteStatus(ps, f, status) EXCEPT
                !.flows = [ps.flows EXCEPT ![f].status = status, ![f].pc = "done",
                              ![f].routed = IF ok THEN Some(outcome) ELSE Absent,
                              ![f].thrown = IF ok THEN Absent ELSE Some(outcome)]]
ResumeFlow_WaitsForEarlier(ps, f, ok, outcome) ==
    IF \E g \in 1..(f - 1) : ps.flows[g].pc # "done"
    THEN ps
    ELSE LET status == IF ok THEN CompletedStatus(ps.flows[f].status, outcome, Clock)
                       ELSE FailedStatus(ps.flows[f].status, outcome, Clock)
         IN  [WriteStatus(ps, f, status) EXCEPT
                !.flows = [ps.flows EXCEPT ![f].status = status, ![f].pc = "done",
                              ![f].routed = IF ok THEN Some(outcome) ELSE Absent,
                              ![f].thrown = IF ok THEN Absent ELSE Some(outcome)]]
ResumeFlow_RetryOnFailure(ps, f, ok, outcome) ==
    IF ~ok /\ ps.flows[f].pc = "awaiting" /\ Len(ps.invocations) < 2 * Len(ps.flows)
    THEN [ps EXCEPT !.invocations = Append(@, <<f, ps.flows[f].handler.handlerId>>)]
    ELSE LET status == IF ok THEN CompletedStatus(ps.flows[f].status, outcome, Clock)
                       ELSE FailedStatus(ps.flows[f].status, outcome, Clock)
         IN  [WriteStatus(ps, f, status) EXCEPT
                !.flows = [ps.flows EXCEPT ![f].status = status, ![f].pc = "done",
                              ![f].routed = IF ok THEN Some(outcome) ELSE Absent,
                              ![f].thrown = IF ok THEN Absent ELSE Some(outcome)]]
ResumeFlow_SharedStatus(ps, f, ok, outcome) ==
    LET shared == ps.flows[Len(ps.flows)].status
        status == IF ok THEN CompletedStatus(shared, outcome, Clock)
                  ELSE FailedStatus(shared, outcome, Clock)
    IN  [WriteStatus(ps, f, status) EXCEPT
            !.flows = [ps.flows EXCEPT ![f].status = status, ![f].pc = "done",
                          ![f].routed = IF ok THEN Some(outcome) ELSE Absent,
                          ![f].thrown = IF ok THEN Absent ELSE Some(outcome)]]
\* Flow f resumes after its await with `outcome`: the value routeMessage
\* resolved to (ok) or the value it rejected with, and writes its last status.
ResumeFlow(ps, f, ok, outcome) ==
    LET status == IF ok THEN CompletedStatus(ps.flows[f].status, outcome, Clock)
                  ELSE FailedStatus(ps.flows[f].status, outcome, Clock)
    IN  [WriteStatus(ps, f, status) EXCEPT
            !.flows = [ps.flows EXCEPT ![f].status = status, ![f].pc = "done",
                          ![f].routed = IF ok THEN Some(outcome) ELSE Absent,
                          ![f].thrown = IF ok THEN Absent ELSE Some(outcome)]]

\* The Responder of flow f answers: routeMessage resolves.
ResponderResolves(f, routed) ==
    /\ flows[f].pc = "awaiting"
    /\ routed \in RouteResults(flows[f].handler)
    /\ SetProcessor(ResumeFlow(ProcessorState, f, TRUE, routed))
    /\ UNCHANGED <<files, fsOps, tasks, events, lifecycleVars, routerVars, serviceVars>>

\* The Responder of flow f fails: routeMessage rejects with what it threw.
ResponderRejects(f, thrown) ==
    /\ flows[f].pc = "awaiting"
    /\ SetProcessor(ResumeFlow(ProcessorState, f, FALSE, thrown))
    /\ UNCHANGED <<files, fsOps, tasks, events, lifecycleVars, routerVars, serviceVars>>

\* The Responder of flow f never answers: the promise processMessage awaits
\* is never settled (no timeout is set on it), so the flow is never resumed.
ResponderHangs(f) ==
    /\ flows[f].pc = "awaiting"
    /\ flows' = [flows EXCEPT ![f].pc = "hung"]
    /\ UNCHANGED <<store, statusCalls, invocations>>
    /\ UNCHANGED <<files, fsOps, tasks, events, lifecycleVars, routerVars, serviceVars>>

\* routeMessage threw before reaching a Responder (handler not found): the
\* rejection reaches processMessage's catch block.
CatchRejection(f) ==
    /\ flows[f].pc = "rejected"
    /\ SetProcessor(ResumeFlow(ProcessorState, f, FALSE, flows[f].thrown[1]))
    /\ UNCHANGED <<files, fsOps, tasks, events, lifecycleVars, routerVars, serviceVars>>

\* ------------------------------------------- the processor's event listener
\* Most created events handed to the listener in a behaviour.
MaxHandled == 3

\* A Message as the listener receives it.
HandledMessage(id, filePath, endpointId, type) ==
    [id |-> id, filePath |-> filePath, endpointId |-> endpointId,
     frontmatter |-> Frontmatter(id, "t", None, type)]

\* Events emitted on the watcher's 'message' channel: created events for a
\* file, for a path without a last portion, and for a file whose route names
\* a handler that is not registered, and an updated event.
HandledEvents ==
    { MessageEvent("created", HandledMessage("m1", "", "inbox", None)),
      MessageEvent("created", HandledMessage("m2", "", "inbox", "question")),
      MessageEvent("created", HandledMessage("m2", "inbox/a.md", "inbox", "question")),
      MessageEvent("created", HandledMessage("m1", "bugs/b.md", "bugs", "task")),
      MessageEvent("updated", HandledMessage("m2", "inbox/a.md", "inbox", "question")) }

\* this.watcher.on('message', (event) => this.handleEvent(event)) called
\* with an event.
HandleEvent(event) ==
    /\ SetProcessor(handleEvent(ProcessorState, routerConfig, event))
    /\ UNCHANGED <<files, fsOps, tasks, events, lifecycleVars, routerVars, serviceVars>>

\* ------------------------------------------------------- watcher: start, stop
\* ignoreInitial: with true the files found when the monitor is created are
\* not reported; with false the monitor fires 'add' for each of them.
InitialFiles(endpoint) ==
    IF ignoreInitial THEN {}
    ELSE {p \in Paths : /\ files[p] # Absent
                        /\ isMarkdownFile(p)
                        /\ PathInfo[p].dir = endpoint.path}

\* chokidar.watch(...) for an endpoint and this.watchers.set(endpoint.id, watcher):
\* Map.set replaces the value of a key already present and keeps its position.
watchEndpoint(lc, endpoint) ==
    LET m == Len(lc.monitors) + 1
        at == {i \in DOMAIN lc.watchers : lc.watchers[i][1] = endpoint.id}
    IN  [lc EXCEPT
            !.monitors = Append(lc.monitors, [endpoint |-> endpoint.id, open |-> TRUE,
                                              initial |-> InitialFiles(endpoint)]),
            !.watchers = IF at = {} THEN Append(lc.watchers, <<endpoint.id, m>>)
                         ELSE [i \in DOMAIN lc.watchers |->
                                 IF i \in at THEN <<endpoint.id, m>> ELSE lc.watchers[i]]]

\* The for loop of start() from endpoint k on, up to its next await: outbox
\* endpoints are skipped, the next other one is watched and the loop suspends.
RECURSIVE StartLoop(_, _, _)
StartLoop(lc, config, k) ==
    IF k > Len(config.endpoints) THEN lc
    ELSE IF config.endpoints[k].direction = "outbox" THEN StartLoop(lc, config, k + 1)
    ELSE [watchEndpoint(lc, config.endpoints[k]) EXCEPT
            !.loops = Append(lc.loops, [kind |-> "start", next |-> k + 1, key |-> None])]

\* The for loop of stop() up to its next await: the iterator's next entry is
\* the first of the Map (every entry visited before it has been deleted);
\* watcher.close() closes that monitor and the loop suspends. With no entry
\* left the call resolves; the flows it leaves unfinished are noted.
StopLoop(lc) ==
    IF lc.watchers = <<>>
    THEN [lc EXCEPT !.history =
            Append(@, [call |-> "stop",
                       unfinished |-> {f \in DOMAIN flows : flows[f].pc # "done"}])]
    ELSE LET entry == Head(lc.watchers)
         IN  [lc EXCEPT !.monitors[entry[2]].open = FALSE,
                        !.loops = Append(lc.loops,
                                    [kind |-> "stop", next |-> 0, key |-> entry[1]])]

Lifecycle ==
    [monitors |-> monitors, watchers |-> watchers, isRunning |-> isRunning, loops |-> loops,
     history |-> history]

SetLifecycle(lc) ==
    /\ monitors' = lc.monitors
    /\ watchers' = lc.watchers
    /\ isRunning' = lc.isRunning
    /\ loops' = lc.loops
    /\ history' = lc.history

Without(seq, i) == SubSeq(seq, 1, i - 1) \o SubSeq(seq, i + 1, Len(seq))

start_Unguarded ==
    /\ lifecycleCalls' = lifecycleCalls + 1
    /\ SetLifecycle(StartLoop([Lifecycle EXCEPT
                                !.isRunning = TRUE,
                                !.history = Append(@, [call |-> "start", unfinished |-> {}])],
                              watchConfig, 1))
    /\ UNCHANGED <<files, fsOps, tasks, events, processorVars, routerVars, serviceVars>>
\* start(): if (this.isRunning) return; this.isRunning = true; then the loop.
start ==
    /\ lifecycleCalls' = lifecycleCalls + 1
    /\ LET called == [Lifecycle EXCEPT !.history =
                        Append(@, [call |-> "start", unfinished |-> {}])]
       IN  IF isRunning THEN SetLifecycle(called)
           ELSE SetLifecycle(StartLoop([called EXCEPT !.isRunning = TRUE], watchConfig, 1))
    /\ UNCHANGED <<files, fsOps, tasks, events, processorVars, routerVars, serviceVars>>

\* stop(): this.isRunning = false; then the loop.
stop ==
    /\ lifecycleCalls' = lifecycleCalls + 1
    /\ SetLifecycle(StopLoop([Lifecycle EXCEPT !.isRunning = FALSE]))
    /\ UNCHANGED <<files, fsOps, tasks, events, processorVars, routerVars, serviceVars>>

\* A suspended start() or stop() resumes: start() goes on with its loop;
\* stop() runs this.watchers.delete(id) and goes on with its loop.
LifecycleResumes(l) ==
    /\ l \in DOMAIN loops
    /\ LET rest == [Lifecycle EXCEPT !.loops = Without(loops, l)]
       IN  IF loops[l].kind = "start"
           THEN SetLifecycle(StartLoop(rest, watchConfig, loops[l].next))
           ELSE SetLifecycle(StopLoop(
                   [rest EXCEPT !.watchers =
                       SelectSeq(watchers, LAMBDA e : e[1] # loops[l].key)]))
    /\ UNCHANGED <<lifecycleCalls, files, fsOps, tasks, events, processorVars, routerVars, serviceVars>>

\* The monitor's first scan reports a file that was there when it was
\* created: 'add' fires and the callback calls handleFile('created', ...).
InitialAdd(m, path) ==
    /\ m \in DOMAIN monitors
    /\ monitors[m].open
    /\ path \in monitors[m].initial
    /\ files[path] # Absent
    /\ monitors' = [monitors EXCEPT ![m].initial = @ \ {path}]
    /\ tasks' = Append(tasks, NewTask("created", path, m))
    /\ UNCHANGED <<files, fsOps, events, watchers, isRunning, loops, lifecycleCalls,
                   history, processorVars, routerVars, serviceVars>>

\* ------------------------------------------------- watcher: monitor failures
\* The failures a chokidar monitor reports on its 'error' event.
WatchFailures == { ErrorObject(Text("EACCES: permission denied")),
                   ErrorObject(Text("ENOENT: no such file or directory")) }

handleError_Silent(log, error) == log
\* handleError(error): console.error('Folder watcher error:', error)
handleError(log, error) == Append(log, <<"Folder watcher error:", error>>)

\* An open monitor raises 'error': the watcher's listener re-emits it on its
\* own 'error' channel, where the processor's listener handleError runs. The
\* monitor and the number of flows begun so far are noted with the failure.
MonitorFails(m, error) ==
    /\ m \in DOMAIN monitors
    /\ monitors[m].open
    /\ watcherErrors' = Append(watcherErrors,
                            [monitor |-> m, error |-> error, flowsBefore |-> Len(flows)])
    /\ errorLog' = handleError(errorLog, error)
    /\ UNCHANGED <<files, fsOps, tasks, events, lifecycleVars, processorVars, routerVars,
                   parseConfig, parseResults, writerVars, storeLog, routeCalls, ignoreInitial>>

\* --------------------------------------------------- router used on its own
\* The routes and the queries the router's own specification draws from.
RouteCandidates ==
    { Route("*", "*", "agent", "fallbackAgent", Some(10)),
      Route("inbox", "question", "workflow", "qaWorkflow", Some(5)),
      Route("*", "question", "workflow", "messageWorkflow", Some(5)),
      Route("inbox", "*", "agent", "inboxAgent", Absent),
      Route("*", "*", "agent", "conciergeAgent", Some(0)) }

RouteLists == UNION { [1..n -> RouteCandidates] : n \in 0..MaxRoutes }

Queries == {"inbox", "bugs"} \X {None, "question", "task"}

\* router.findRoute(endpoint, messageType): the call's result is recorded with
\* the route list it ran on.
FindRoute(endpoint, messageType) ==
    /\ found' = [found EXCEPT ![<<endpoint, messageType>>] =
                    Some([route |-> findRoute(routerConfig, endpoint, messageType),
                          routes |-> routerConfig.routes])]
    /\ routerConfig' = [routerConfig EXCEPT !.routes = RoutesAfterFindRoute(@)]
    /\ UNCHANGED <<files, fsOps, tasks, events, lifecycleVars, processorVars, serviceVars>>

\* ------------------------------------------- routeMessage used on its own
\* Most routeMessage calls made from outside in a behaviour.
MaxRouteCalls == 2

\* The ids of the configured endpoints: the folder configuration is no
\* argument of the router, which compares endpoint strings with its routes only.
EndpointIds == { defaultFolderConfig.endpoints[i].id : i \in DOMAIN defaultFolderConfig.endpoints }

JsUndefined == [type |-> "undefined", repr |-> "undefined"]

\* What run.start resolves to: null, an object without a summary key, and
\* objects whose summary is a string, a number, or undefined.
RunResults ==
    WorkflowResults \cup
    { [isObject |-> TRUE, summary |-> Some(JsNumber("42"))],
      [isObject |-> TRUE, summary |-> Some(JsUndefined)] }

RouteInputs == {"inbox", "bugs", "random-endpoint"} \X {None, "question", "task"}

RoutingUntouched ==
    UNCHANGED <<files, fsOps, tasks, events, lifecycleVars, processorVars, routerVars,
                watcherErrors, errorLog, parseConfig, parseResults, writerVars, storeLog, ignoreInitial>>

\* routeMessage(filename, endpoint, messageType) up to its first await: the
\* handler is resolved and looked up; a handler that is not registered makes
\* the call reject, a registered one is invoked.
routeMessage(filename, endpoint, messageType) ==
    LET handler == ResolveHandler(routerConfig, endpoint, messageType)
        call == [filename |-> filename, endpoint |-> endpoint,
                 messageType |-> messageType, handler |-> handler,
                 invoked |-> HandlerLive(handler),
                 pc |-> IF HandlerLive(handler) THEN "awaiting" ELSE "rejected",
                 response |-> Absent, returned |-> Absent,
                 thrown |-> IF HandlerLive(handler) THEN Absent
                            ELSE Some(HandlerNotFound(handler))]
    IN  /\ routeCalls' = Append(routeCalls, call)
        /\ RoutingUntouched

\* run.start resolved for a call that awaits a workflow.
RunResolves(c, result) ==
    /\ routeCalls[c].pc = "awaiting"
    /\ routeCalls[c].handler.handlerType = "workflow"
    /\ routeCalls' = [routeCalls EXCEPT
                        ![c].pc = "resolved",
                        ![c].response = Some(result),
                        ![c].returned = Some([handler |-> routeCalls[c].handler.handlerId,
                                              result |-> WorkflowSummary(result)])]
    /\ RoutingUntouched

\* agent.generate resolved for a call that awaits an agent.
GenerateResolves(c, response) ==
    /\ routeCalls[c].pc = "awaiting"
    /\ routeCalls[c].handler.handlerType = "agent"
    /\ routeCalls' = [routeCalls EXCEPT
                        ![c].pc = "resolved",
                        ![c].returned = Some([handler |-> routeCalls[c].handler.handlerId,
                                              result |-> response.text])]
    /\ RoutingUntouched

\* The Responder's promise rejected: the call rejects with the same value.
ResponderThrows(c, thrown) ==
    /\ routeCalls[c].pc = "awaiting"
    /\ routeCalls' = [routeCalls EXCEPT ![c].pc = "rejected", ![c].thrown = Some(thrown)]
    /\ RoutingUntouched

\* ------------------------------------------------------------ message writer
\* A metadata value a caller supplies, by its JavaScript kind, and a text as
\* the sequence of its pieces.
Str(text) == [kind |-> "string", text |-> text]
Num(text) == [kind |-> "number", text |-> text]
Undefined == [kind |-> "undefined", text |-> ""]
Null == [kind |-> "null", text |-> ""]

\* JSON.stringify(value): a string comes out quoted, a number as its digits,
\* and undefined is returned for undefined, which the template literal
\* `${key}: ${...}` prints as the bare text undefined.
JSONstringify(value) ==
    CASE value.kind = "string"    -> [quoted |-> TRUE,  text |-> value.text]
      [] value.kind = "number"    -> [quoted |-> FALSE, text |-> value.text]
      [] value.kind = "null"      -> [quoted |-> FALSE, text |-> "null"]
      [] value.kind = "undefined" -> [quoted |-> FALSE, text |-> "undefined"]

\* { id, timestamp, ...options.frontmatter }: a key already present keeps its
\* place and takes the later value; a new key goes to the end.
RECURSIVE Spread(_, _)
Spread(entries, extra) ==
    IF extra = <<>> THEN entries
    ELSE LET key == Head(extra)[1]
             at == {i \in DOMAIN entries : entries[i][1] = key}
         IN  Spread(IF at = {} THEN Append(entries, Head(extra))
                    ELSE [i \in DOMAIN entries |->
                            IF i \in at THEN Head(extra) ELSE entries[i]],
                    Tail(extra))

\* randomUUID() and new Date().toISOString() of the n-th write() call.
Uuids == <<"u1", "u2", "u3", "u4">>
Stamps == <<"t1", "t2", "t3", "t4">>

Filename_Constant(options, id) ==
    IF options.filename \in {None, ""} THEN <<"message", ".md">> ELSE <<options.filename>>
\* const filename = options.filename || `${id}.md`
Filename(options, id) ==
    IF options.filename \in {None, ""} THEN <<id, ".md">> ELSE <<options.filename>>

\* The metadata write() serializes.
WriterFrontmatter_DefaultsWin(options, id, now) ==
    Spread(options.frontmatter, << <<"id", Str(id)>>, <<"timestamp", Str(now)>> >>)
WriterFrontmatter(options, id, now) ==
    Spread(<< <<"id", Str(id)>>, <<"timestamp", Str(now)>> >>, options.frontmatter)

\* `---\n${yamlLines}\n---\n\n${options.content}`: the lines `key: JSON`, and
\* after the closing delimiter an empty line and the content.
FileContent(frontmatter, content) ==
    [yamlLines |-> [i \in DOMAIN frontmatter |->
                       <<frontmatter[i][1], JSONstringify(frontmatter[i][2])>>],
     rest |-> <<"\n", "\n">> \o content]

\* The mailbox configuration a MessageWriter is constructed with.
writerConfig == defaultFolderConfig

\* this.config.endpoints.find((e) => e.id === options.endpointId)
FindEndpoint(config, endpointId) ==
    LET at == {i \in DOMAIN config.endpoints : config.endpoints[i].id = endpointId}
    IN  IF at = {} THEN Absent
        ELSE Some(config.endpoints[CHOOSE i \in at : \A j \in at : i <= j])

\* write(options) up to its first await: it throws for an unknown endpoint, or
\* builds path and text and calls mkdir(dirname(filePath), {recursive: true}).
WriteCall_MkdirFirst(options) ==
    LET n == Len(writes) + 1
        endpoint == FindEndpoint(writerConfig, options.endpointId)
        dir == IF endpoint = Absent THEN options.endpointId ELSE endpoint[1].path
        id == Uuids[n]
    IN  [options |-> options, id |-> id,
         filePath |-> [dir |-> dir, name |-> Filename(options, id)],
         frontmatter |-> WriterFrontmatter(options, id, Stamps[n]),
         fileContent |-> FileContent(WriterFrontmatter(options, id, Stamps[n]),
                                     options.content),
         pc |-> "mkdir", thrown |-> Absent, returned |-> Absent]
WriteCall(options) ==
    LET n == Len(writes) + 1
        endpoint == FindEndpoint(writerConfig, options.endpointId)
        id == Uuids[n]
    IN  IF endpoint = Absent
        THEN [options |-> options, id |-> None,
              filePath |-> [dir |-> None, name |-> <<>>],
              frontmatter |-> <<>>,
              fileContent |-> FileContent(<<>>, <<>>),
              pc |-> "rejected",
              thrown |-> Some(ErrorObject(<<"Endpoint not found: ", options.endpointId>>)),
              returned |-> Absent]
        ELSE [options |-> options, id |-> id,
              filePath |-> [dir |-> endpoint[1].path, name |-> Filename(options, id)],
              frontmatter |-> WriterFrontmatter(options, id, Stamps[n]),
              fileContent |-> FileContent(WriterFrontmatter(options, id, Stamps[n]),
                                          options.content),
              pc |-> "mkdir", thrown |-> Absent, returned |-> Absent]

write(options) ==
    /\ writes' = Append(writes, WriteCall(options))
    /\ UNCHANGED <<dirs, writeLog>>
    /\ UNCHANGED <<files, fsOps, tasks, events, lifecycleVars, processorVars, routerVars,
                   watcherErrors, errorLog, parseConfig, parseResults, storeLog, routeCalls, ignoreInitial>>

\* mkdir settles for call w: the directory exists now (it is no error if it
\* did before) and write() goes on to call writeFile.
MkdirSettles(w) ==
    /\ writes[w].pc = "mkdir"
    /\ dirs' = dirs \cup {writes[w].filePath.dir}
    /\ writes' = [writes EXCEPT ![w].pc = "writeFile"]
    /\ UNCHANGED writeLog
    /\ UNCHANGED <<files, fsOps, tasks, events, lifecycleVars, processorVars, routerVars,
                   watcherErrors, errorLog, parseConfig, parseResults, storeLog, routeCalls, ignoreInitial>>

\* writeFile settles for call w: the file at the path now holds the call's
\* text, whatever it held before, and write() returns the path.
WriteFileSettles(w) ==
    /\ writes[w].pc = "writeFile"
    /\ writeLog' = Append(writeLog, [filePath |-> writes[w].filePath,
                                     fileContent |-> writes[w].fileContent,
                                     call |-> w])
    /\ writes' = [writes EXCEPT ![w].pc = "done", ![w].returned = Some(writes[w].filePath)]
    /\ UNCHANGED dirs
    /\ UNCHANGED <<files, fsOps, tasks, events, lifecycleVars, processorVars, routerVars,
                   watcherErrors, errorLog, parseConfig, parseResults, storeLog, routeCalls, ignoreInitial>>

\* The write() calls the callers make.
WriteOptions(endpointId, content, frontmatter, filename) ==
    [endpointId |-> endpointId, content |-> content, frontmatter |-> frontmatter,
     filename |-> filename]

WriteInputs ==
    { WriteOptions("nowhere", <<"hello">>, <<>>, None),
      WriteOptions("outbox", <<"hello">>, <<>>, None),
      WriteOptions("outbox", <<" ", "hello", "\n">>,
                   << <<"id", Str("X")>>, <<"severity", Str("high")>> >>, None),
      WriteOptions("outbox", <<"hello">>,
                   << <<"replyTo", Undefined>>, <<"count", Num("42")>> >>, "x.md"),
      WriteOptions("inbox", <<"other">>, << <<"timestamp", Str("T")>> >>, "x.md"),
      WriteOptions("outbox", <<"hello">>, <<>>, "") }

\* ---------------------------------------------- reading a written file back
\* The plain YAML scalars that are numbers.
Numerals == {"0", "42"}

\* The value js-yaml gives a scalar of the metadata block: a double-quoted
\* scalar is the string between the quotes; a plain one is null, a number, or
\* else the string of its characters.
YAMLvalue(scalar) ==
    IF scalar.quoted THEN Str(scalar.text)
    ELSE IF scalar.text = "null" THEN Null
    ELSE IF scalar.text \in Numerals THEN Num(scalar.text)
    ELSE Str(scalar.text)

\* matter(fileContent): data from the lines between the delimiters, content
\* the text after the closing delimiter less the line break that ends it.
matter(fileContent) ==
    [data |-> [i \in DOMAIN fileContent.yamlLines |->
                  <<fileContent.yamlLines[i][1], YAMLvalue(fileContent.yamlLines[i][2])>>],
     content |-> IF fileContent.rest # <<>> /\ Head(fileContent.rest) = "\n"
                 THEN Tail(fileContent.rest) ELSE fileContent.rest]

\* String.prototype.trim on a text given by its pieces.
Whitespace == {" ", "\n"}
RECURSIVE TrimStart(_)
TrimStart(text) ==
    IF text # <<>> /\ Head(text) \in Whitespace THEN TrimStart(Tail(text)) ELSE text
RECURSIVE TrimEnd(_)
TrimEnd(text) ==
    IF text # <<>> /\ text[Len(text)] \in Whitespace
    THEN TrimEnd(SubSeq(text, 1, Len(text) - 1)) ELSE text
trim(text) == TrimEnd(TrimStart(text))

\* What parseFile makes of a file's text: frontmatter and content.trim().
ReadBack(fileContent) ==
    LET file == matter(fileContent)
    IN  [frontmatter |-> file.data, content |-> trim(file.content)]

\* ------------------------------------------------ parseFile used on its own
\* A configuration that does not flag id as required.
optionalIdConfig ==
    [watchConfig EXCEPT !.defaultFrontmatter =
        << Field("id", FALSE), Field("timestamp", TRUE),
           Field("from", FALSE), Field("replyTo", FALSE) >>]

\* A configuration whose bugs endpoint lists severity without requiring it.
optionalSeverityConfig ==
    [watchConfig EXCEPT !.endpoints[2].requiredFrontmatter = <<Field("severity", FALSE)>>]

ParseConfigs == {watchConfig, optionalIdConfig, optionalSeverityConfig}

\* The files parseFile is run on: a path of a watched directory and what
\* readFile returned for it.
ParseQueries == {"inbox/a.md", "bugs/b.md"} \X Contents

\* parseFile(filePath, endpoint) of a watcher constructed with parseConfig,
\* once readFile and stat have resolved: its outcome is recorded.
ParseFile(filePath, content) ==
    /\ parseResults' = [parseResults EXCEPT ![<<filePath, content>>] =
                    Some(parseFile(parseConfig,
                                   EndpointById(parseConfig, PathInfo[filePath].dir),
                                   filePath, content))]
    /\ UNCHANGED <<files, fsOps, tasks, events, lifecycleVars, processorVars, routerVars,
                   watcherErrors, errorLog, parseConfig, writerVars, storeLog, routeCalls, ignoreInitial>>

\* ------------------------------------------- status store used on its own
\* The longest sequence of calls made on the store from outside.
MaxStoreCalls == 4

StoreStatus(id, status, createdAt, processedAt, error, summary) ==
    [id |-> id, status |-> status, endpoint |-> "inbox", filename |-> "a.md",
     createdAt |-> createdAt,
     processedAt |-> processedAt, error |-> error, summary |-> summary]

\* The status objects callers pass: two for m1, of which only the failed one
\* has optional fields, two for m2, created-at values that repeat, and none
\* that is being processed.
StatusInputs ==
    { StoreStatus("m1", "failed", 1, Some(2), Text("boom"), Absent),
      StoreStatus("m1", "pending", 1, Absent, Absent, Absent),
      StoreStatus("m2", "pending", 1, Absent, Absent, Absent),
      StoreStatus("m2", "completed", 2, Some(3), Absent, Text("done")),
      StoreStatus("inbox/a.md", "pending", 3, Absent, Absent, Absent) }

\* One call and what it resolved to: for getMessageStatus the status or
\* nothing, for getAllMessageStatuses the list.
StoreCall(op, status, id, filterStatus, result) ==
    [op |-> op, status |-> status, id |-> id, filterStatus |-> filterStatus,
     result |-> result]

StoreUntouched ==
    UNCHANGED <<files, fsOps, tasks, events, lifecycleVars, statusCalls, flows,
                invocations, routerVars, watcherErrors, errorLog, parseConfig,
                parseResults, writerVars, routeCalls, ignoreInitial>>

\* await updateMessageStatus(status)
UpdateStatus(status) ==
    /\ store' = updateMessageStatus(store, status)
    /\ storeLog' = Append(storeLog, StoreCall("update", Some(status), None, None, <<>>))
    /\ StoreUntouched

\* await clearStatusStore()
clearStatusStore ==
    /\ store' = DeleteAll(store)
    /\ storeLog' = Append(storeLog, StoreCall("clear", Absent, None, None, <<>>))
    /\ StoreUntouched

\* await getMessageStatus(id)
GetStatus(id) ==
    /\ storeLog' = Append(storeLog,
                          StoreCall("get", Absent, id, None, getMessageStatus(store, id)))
    /\ UNCHANGED store
    /\ StoreUntouched

\* await getAllMessageStatuses(filterStatus)
ListStatuses(filterStatus) ==
    /\ \E result \in getAllMessageStatuses(store, filterStatus) :
          storeLog' = Append(storeLog,
                             StoreCall("list", Absent, None, filterStatus, result))
    /\ UNCHANGED store
    /\ StoreUntouched

\* ------------------------------------------------------------ specifications
\* The state after new MessageProcessor(config, mastra, routerConfig).
\* Nothing has run yet: no call made, no callback pending, every log empty.
InitIdle ==
    /\ fsOps = 0
    /\ monitors = <<>>
    /\ watchers = <<>>
    /\ isRunning = FALSE
    /\ loops = <<>>
    /\ lifecycleCalls = 0
    /\ history = <<>>
    /\ tasks = <<>>
    /\ events = [p \in Paths |-> <<>>]
    /\ flows = <<>>
    /\ store = [id \in MessageIds |-> Absent]
    /\ statusCalls = [id \in MessageIds |-> <<>>]
    /\ invocations = <<>>
    /\ found = [q \in Queries |-> Absent]
    /\ watcherErrors = <<>>
    /\ errorLog = <<>>
    /\ parseResults = [q \in ParseQueries |-> Absent]
    /\ dirs = {}
    /\ writeLog = <<>>
    /\ writes = <<>>
    /\ storeLog = <<>>
    /\ routeCalls = <<>>

\* The state after construction with empty mailbox directories, for the
\* watcher that passes ignoreInitial: true.
InitProcessor ==
    /\ files = [p \in Paths |-> Absent]
    /\ ignoreInitial = TRUE
    /\ InitIdle

Init ==
    /\ InitProcessor
    /\ routerConfig = processorRouterConfig
    /\ parseConfig = watchConfig

\* The event loop. A continuation whose awaited promise is already settled is
\* a microtask: start() after await this.watchEndpoint(...), which awaits
\* nothing itself, and processMessage after a routeMessage that threw before
\* its first await. Microtasks run in the order they were queued and before
\* any I/O callback (a file event, readFile or stat settling, a Responder
\* answering). stop() resumes when watcher.close() settles, which may take any
\* time but is never ahead of a microtask queued before it.
Idle ==
    /\ \A l \in DOMAIN loops : loops[l].kind # "start"
    /\ \A f \in DOMAIN flows : flows[f].pc # "rejected"

Runnable(l) == \A k \in 1..(l - 1) : loops[k].kind # "start"

\* The steps of the watcher's tasks and of the processor's flows, which the
\* program takes when the awaited promise has settled.
Settles ==
    \/ \E l \in DOMAIN loops : Runnable(l) /\ LifecycleResumes(l)
    \/ \E t \in DOMAIN tasks : Idle /\ ReadFileSettles(t)
    \/ \E t \in DOMAIN tasks : Idle /\ StatSettles(t)
    \/ \E f \in DOMAIN flows : \E routed \in RouteResults(flows[f].handler) :
            Idle /\ ResponderResolves(f, routed)
    \/ \E f \in DOMAIN flows, thrown \in ResponderFailures :
            Idle /\ ResponderRejects(f, thrown)
    \/ \E f \in DOMAIN flows : CatchRejection(f)

Next ==
    \/ lifecycleCalls < MaxLifecycleCalls /\ start
    \/ lifecycleCalls < MaxLifecycleCalls /\ stop
    \/ \E path \in Paths : \E content \in ContentsFor(path) :
            Idle /\ fsOps < MaxFsOps /\ FsWrite(path, content)
    \/ \E path \in Paths : Idle /\ fsOps < MaxFsOps /\ FsUnlink(path)
    \/ Settles

Spec == Init /\ [][Next]_vars

\* The watcher's start() and stop() under more calls and fewer file
\* operations: every interleaving of up to MaxWatcherCalls calls with writes
\* of one inbox file and the flows they start.
NextLifecycle ==
    \/ lifecycleCalls < MaxWatcherCalls /\ start
    \/ lifecycleCalls < MaxWatcherCalls /\ stop
    \/ \E content \in ContentsFor("inbox/a.md") :
            Idle /\ fsOps < MaxWatcherFsOps /\ FsWrite("inbox/a.md", content)
    \/ Settles

SpecLifecycle == Init /\ [][NextLifecycle]_vars

\* The watcher once messageProcessor.start() has run to its end: start() was
\* called once and its loop has watched every endpoint of watchConfig.
RECURSIVE RunStart(_)
RunStart(lc) ==
    IF lc.loops = <<>> THEN lc
    ELSE RunStart(StartLoop([lc EXCEPT !.loops = <<>>], watchConfig, lc.loops[1].next))

Started ==
    RunStart(StartLoop([monitors |-> <<>>, watchers |-> <<>>, isRunning |-> TRUE,
                        loops |-> <<>>,
                        history |-> <<[call |-> "start", unfinished |-> {}]>>],
                       watchConfig, 1))

InitLive ==
    /\ files = [p \in Paths |-> Absent]
    /\ ignoreInitial = TRUE
    /\ fsOps = 0
    /\ monitors = Started.monitors
    /\ watchers = Started.watchers
    /\ isRunning = Started.isRunning
    /\ loops = Started.loops
    /\ history = Started.history
    /\ lifecycleCalls = 1
    /\ tasks = <<>>
    /\ events = [p \in Paths |-> <<>>]
    /\ flows = <<>>
    /\ store = [id \in MessageIds |-> Absent]
    /\ statusCalls = [id \in MessageIds |-> <<>>]
    /\ invocations = <<>>
    /\ found = [q \in Queries |-> Absent]
    /\ watcherErrors = <<>>
    /\ errorLog = <<>>
    /\ parseResults = [q \in ParseQueries |-> Absent]
    /\ dirs = {}
    /\ writeLog = <<>>
    /\ writes = <<>>
    /\ storeLog = <<>>
    /\ routeCalls = <<>>
    /\ routerConfig = processorRouterConfig
    /\ parseConfig = watchConfig

\* What the Responder of flow f, or the rejection routeMessage holds for it,
\* does next: it answers, fails, or is known never to answer.
FlowSettles(f) ==
    /\ f \in DOMAIN flows
    /\ \/ \E routed \in RouteResults(flows[f].handler) : Idle /\ ResponderResolves(f, routed)
       \/ \E thrown \in ResponderFailures : Idle /\ ResponderRejects(f, thrown)
       \/ CatchRejection(f)
       \/ Idle /\ ResponderHangs(f)

\* The flows a behaviour of SpecLive can hold: one per file written.
FlowIds == 1..MaxLiveFsOps

NextLive ==
    \/ \E path \in Paths : \E content \in ContentsFor(path) :
            Idle /\ fsOps < MaxLiveFsOps /\ FsWrite(path, content)
    \/ \E t \in DOMAIN tasks : Idle /\ ReadFileSettles(t)
    \/ \E t \in DOMAIN tasks : Idle /\ StatSettles(t)
    \/ \E f \in DOMAIN flows : FlowSettles(f)

\* The running processor with Responders that each answer, fail or hang: a
\* flow whose promise settles is resumed (the event loop runs every settled
\* promise's continuation).
SpecLive ==
    /\ InitLive
    /\ [][NextLive]_vars
    /\ \A f \in FlowIds : WF_vars(FlowSettles(f))

\* The running processor while the monitor of the inbox fails and files
\* arrive at another endpoint.
NextWatchErrors ==
    \/ \E path \in {"bugs/b.md"} : \E content \in ContentsFor(path) :
            Idle /\ fsOps < MaxLiveFsOps /\ FsWrite(path, content)
    \/ \E t \in DOMAIN tasks : Idle /\ ReadFileSettles(t)
    \/ \E t \in DOMAIN tasks : Idle /\ StatSettles(t)
    \/ \E f \in DOMAIN flows : FlowSettles(f)
    \/ \E m \in {k \in DOMAIN monitors : monitors[k].endpoint = "inbox"} :
         \E error \in WatchFailures :
            Idle /\ Len(watcherErrors) < MaxWatchErrors /\ MonitorFails(m, error)

SpecWatchErrors ==
    /\ InitLive
    /\ [][NextWatchErrors]_vars
    /\ \A f \in FlowIds : WF_vars(FlowSettles(f))

\* parseFile alone, under each configuration.
InitParse ==
    /\ InitProcessor
    /\ routerConfig = processorRouterConfig
    /\ parseConfig \in ParseConfigs

NextParse == \E q \in ParseQueries : ParseFile(q[1], q[2])

SpecParse == InitParse /\ [][NextParse]_vars

\* The MessageWriter alone: write() calls that overlap in every way.
NextWriter ==
    \/ \E options \in WriteInputs : Len(writes) < MaxWrites /\ write(options)
    \/ \E w \in DOMAIN writes : MkdirSettles(w)
    \/ \E w \in DOMAIN writes : WriteFileSettles(w)

SpecWriter == Init /\ [][NextWriter]_vars

\* The status store alone: every sequence of calls up to MaxStoreCalls long.
NextStore ==
    \/ \E status \in StatusInputs : Len(storeLog) < MaxStoreCalls /\ UpdateStatus(status)
    \/ Len(storeLog) < MaxStoreCalls /\ clearStatusStore
    \/ \E id \in MessageIds : Len(storeLog) < MaxStoreCalls /\ GetStatus(id)
    \/ \E filterStatus \in Filters :
          Len(storeLog) < MaxStoreCalls /\ ListStatuses(filterStatus)

SpecStore == Init /\ [][NextStore]_vars

\* The router alone, on every route list up to MaxRoutes long.
InitRouter ==
    /\ InitProcessor
    /\ parseConfig = watchConfig
    /\ routerConfig \in [routes : RouteLists,
                         defaultHandler : {defaultRouterConfig.defaultHandler}]

NextRouter == \E q \in Queries : FindRoute(q[1], q[2])

SpecRouter == InitRouter /\ [][NextRouter]_vars

\* The processor's listener alone, on events whatever emitted them.
NextHandler ==
    \/ \E event \in HandledEvents : Idle /\ Len(flows) < MaxHandled /\ HandleEvent(event)
    \/ \E f \in DOMAIN flows : \E routed \in RouteResults(flows[f].handler) :
            Idle /\ ResponderResolves(f, routed)
    \/ \E f \in DOMAIN flows, thrown \in ResponderFailures :
            Idle /\ ResponderRejects(f, thrown)
    \/ \E f \in DOMAIN flows : CatchRejection(f)

SpecHandler == Init /\ [][NextHandler]_vars

\* The processor started on a mailbox that already holds a file, for either
\* watcher the sources contain, while one more file arrives.
MaxLateFsOps == 1

InitiallyPresent == {"inbox/a.md"}

InitInitial ==
    /\ files = [p \in Paths |->
                  IF p \in InitiallyPresent
                  THEN Some([frontmatter |-> Frontmatter("m1", "t", None, None)])
                  ELSE Absent]
    /\ ignoreInitial \in BOOLEAN
    /\ InitIdle
    /\ routerConfig = processorRouterConfig
    /\ parseConfig = watchConfig

NextInitial ==
    \/ lifecycleCalls < MaxLifecycleCalls /\ start
    \/ \E l \in DOMAIN loops : Runnable(l) /\ LifecycleResumes(l)
    \/ \E m \in DOMAIN monitors : \E path \in Paths : Idle /\ InitialAdd(m, path)
    \/ \E path \in {"bugs/b.md"} : \E content \in ContentsFor(path) :
            Idle /\ fsOps < MaxLateFsOps /\ FsWrite(path, content)
    \/ \E t \in DOMAIN tasks : Idle /\ ReadFileSettles(t)
    \/ \E t \in DOMAIN tasks : Idle /\ StatSettles(t)
    \/ \E f \in DOMAIN flows : \E routed \in RouteResults(flows[f].handler) :
            Idle /\ ResponderResolves(f, routed)
    \/ \E f \in DOMAIN flows, thrown \in ResponderFailures :
            Idle /\ ResponderRejects(f, thrown)
    \/ \E f \in DOMAIN flows : CatchRejection(f)

SpecInitial == InitInitial /\ [][NextInitial]_vars

\* routeMessage alone, under both router configurations and for endpoint ids
\* that are configured and one that is not.
InitRouting ==
    /\ InitProcessor
    /\ parseConfig = watchConfig
    /\ routerConfig \in {defaultRouterConfig, processorRouterConfig}

NextRouting ==
    \/ \E q \in RouteInputs :
          Len(routeCalls) < MaxRouteCalls /\ routeMessage("a.md", q[1], q[2])
    \/ \E c \in DOMAIN routeCalls : \E result \in RunResults : RunResolves(c, result)
    \/ \E c \in DOMAIN routeCalls : \E response \in AgentResponses :
          GenerateResolves(c, response)
    \/ \E c \in DOMAIN routeCalls : \E thrown \in ResponderFailures :
          ResponderThrows(c, thrown)

SpecRouting == InitRouting /\ [][NextRouting]_vars

\* ------------------------------------------------------------------- claims
Statuses(calls) == [i \in DOMAIN calls |-> calls[i][2].status]

\* The updateMessageStatus calls flow f made for the id of its message, in order.
FlowCalls(f) == SelectSeq(statusCalls[flows[f].message.id], LAMBDA c : c[1] = f)

\* Whether flow f made an updateMessageStatus call for another id.
WritesElsewhere(f) ==
    \E id \in MessageIds \ {flows[f].message.id} :
        \E i \in DOMAIN statusCalls[id] : statusCalls[id][i][1] = f

Terminal(status) == status \in {"completed", "failed"}

\* C1: the status writes one created event causes are, in order, pending,
\* processing, completed when routeMessage resolved, and pending, processing,
\* failed when it rejected; while the flow waits for routeMessage they are
\* pending, processing. No other sequence occurs.
C1_StatusSequence ==
    \A f \in DOMAIN flows :
        /\ ~WritesElsewhere(f)
        /\ Statuses(FlowCalls(f)) =
             CASE flows[f].pc # "done" -> <<"pending", "processing">>
               [] flows[f].pc = "done" /\ flows[f].thrown = Absent ->
                    <<"pending", "processing", "completed">>
               [] OTHER -> <<"pending", "processing", "failed">>

\* C1 witness: one flow ended after routing succeeded and one after it failed.
C1_Witness ==
    \E f, g \in DOMAIN flows :
        /\ flows[f].pc = "done" /\ flows[f].routed # Absent
        /\ flows[g].pc = "done" /\ flows[g].thrown # Absent

Rank(status) ==
    CASE status = "pending" -> 1
      [] status = "processing" -> 2
      [] OTHER -> 3

\* C2: for every id the stored status only moves forward: no step takes a
\* stored status to an earlier one, and a completed or failed row never changes
\* to another status.
C2_ForwardOnly ==
    [][\A id \in MessageIds :
          store[id] # Absent =>
            /\ store'[id] # Absent
            /\ Rank(store'[id][1].status) >= Rank(store[id][1].status)
            /\ Terminal(store[id][1].status) =>
                  store'[id][1].status = store[id][1].status]_vars

\* The events a step emits about a path.
Emitted(path) == SubSeq(events'[path], Len(events[path]) + 1, Len(events'[path]))

\* C3: a step in which the watcher emits only updated, deleted or error events
\* changes no status row, adds none, makes no updateMessageStatus call, starts
\* no processing flow and invokes no Responder.
C3_OnlyCreatedIsProcessed ==
    [][ ( /\ \E path \in Paths : Emitted(path) # <<>>
          /\ \A path \in Paths : \A i \in DOMAIN Emitted(path) :
                Emitted(path)[i].type # "message:created" )
        => UNCHANGED <<store, statusCalls, flows, invocations>> ]_vars

\* C3 witness: an updated event and a deleted or error event have been emitted,
\* and the only row in the store is the one the created event produced.
C3_Witness ==
    /\ \E path \in Paths : \E i \in DOMAIN events[path] :
          events[path][i].type = "message:updated"
    /\ Len(flows) = 1
    /\ store[flows[1].message.id] # Absent

\* The names of the fields required of a file of an endpoint, read off the
\* configuration, and those a parsed content lacks.
RequiredNames(endpointId) ==
    { fld.name : fld \in { x \in Range(watchConfig.defaultFrontmatter)
                               \cup Range(EndpointById(watchConfig, endpointId).requiredFrontmatter) :
                           x.required } }

MissingNames(t) ==
    { n \in RequiredNames(tasks[t].endpoint) : tasks[t].content[1].frontmatter[n] = None }

\* The event task t emitted.
TaskEvent(t) == events[tasks[t].filePath][tasks[t].event]

\* The add/change callbacks that read a file lacking a required field and
\* have emitted their event.
InvalidTasks ==
    { t \in DOMAIN tasks :
        tasks[t].pc = "done" /\ tasks[t].content # Absent /\ MissingNames(t) # {} }

\* C4 as claimed: a callback for a file whose metadata lacks a required field
\* emits a parseError naming a missing field, never a created or updated event.
C4_ParseErrorNamesField ==
    \A t \in InvalidTasks :
        /\ TaskEvent(t).type = "error"
        /\ \E n \in MissingNames(t) : n \in Range(TaskEvent(t).error)

\* C4 amended: such a callback emits a parseError and never a created or
\* updated event; the parseError names a missing required field, or, when stat
\* on the file failed after the read, carries that failure.
C4_ParseErrorOnMissingField ==
    \A t \in InvalidTasks :
        /\ TaskEvent(t).type = "error"
        /\ \/ \E n \in MissingNames(t) : n \in Range(TaskEvent(t).error)
           \/ TaskEvent(t).error = NoSuchFile("stat", tasks[t].filePath).message

\* C4 witness: a file of the bugs endpoint without severity was parsed and the
\* parseError names severity.
C4_Witness ==
    \E t \in InvalidTasks :
        /\ MissingNames(t) = {"severity"}
        /\ TaskEvent(t).type = "error"
        /\ "severity" \in Range(TaskEvent(t).error)

\* The last status write flow f made.
LastCall(f) == FlowCalls(f)[Len(FlowCalls(f))][2]

\* Flow f is the only flow for its message id.
OnlyFlowOfId(f) ==
    \A g \in DOMAIN flows : g # f => flows[g].message.id # flows[f].message.id

\* What a thrown value is described as: an Error's message, else its string form.
Description(thrown) == IF thrown.isError THEN thrown.message ELSE thrown.string

\* C5: a flow whose routeMessage failed (handler not found, or the Responder
\* threw) holds the failure inside the flow; once it has finished, its last
\* write is a failed row whose error is the failure's description, and that row
\* is the stored one when no other flow shares the id.
C5_RoutingFailureRecorded ==
    \A f \in DOMAIN flows :
        flows[f].thrown # Absent =>
            /\ flows[f].pc \in {"rejected", "done"}
            /\ flows[f].pc = "done" =>
                  /\ LastCall(f).status = "failed"
                  /\ LastCall(f).error = Description(flows[f].thrown[1])
                  /\ OnlyFlowOfId(f) => store[flows[f].message.id] = Some(LastCall(f))

\* C5 witness: a flow failed and its failure was recorded, and a created event
\* taken up after that was processed to completion.
C5_Witness ==
    \E f, g \in DOMAIN flows :
        /\ f < g
        /\ flows[f].pc = "done" /\ flows[f].thrown # Absent
        /\ flows[f].status.processedAt[1] < g
        /\ flows[g].pc = "done" /\ flows[g].routed # Absent

\* C6: flows of distinct ids are independent: no flow writes under an id other
\* than its own, the stored row of an id is always the last one written under
\* it, and a flow that is alone on its id and whose Responder succeeded leaves
\* its completed row in the store.
C6_IndependentFlows ==
    /\ \A f \in DOMAIN flows : ~WritesElsewhere(f)
    /\ \A id \in MessageIds :
          store[id] = IF statusCalls[id] = <<>> THEN Absent
                      ELSE Some(statusCalls[id][Len(statusCalls[id])][2])
    /\ \A f \in DOMAIN flows :
          (flows[f].pc = "done" /\ flows[f].routed # Absent /\ OnlyFlowOfId(f)) =>
              /\ store[flows[f].message.id] = Some(flows[f].status)
              /\ flows[f].status.status = "completed"

\* C6 witness: two flows of distinct ids ran interleaved (the second began
\* before the first finished, and finished first) and both are completed.
C6_Witness ==
    /\ Len(flows) = 2
    /\ flows[1].message.id # flows[2].message.id
    /\ flows[1].pc = "done" /\ flows[1].routed # Absent
    /\ flows[2].pc = "done" /\ flows[2].routed # Absent
    /\ flows[1].status.processedAt[1] = 2
    /\ store[flows[1].message.id][1].status = "completed"
    /\ store[flows[2].message.id][1].status = "completed"

\* C7: no two unfinished processing flows write status rows for the same id.
C7_OneFlowPerId ==
    \A f, g \in DOMAIN flows :
        (f # g /\ flows[f].message.id = flows[g].message.id) =>
            (flows[f].pc = "done" \/ flows[g].pc = "done")

\* The rows the store held for flow f's id from f's first write to its last
\* (to the latest row, while f has not finished).
RowsDuring(f) ==
    LET calls == statusCalls[flows[f].message.id]
        mine == { i \in DOMAIN calls : calls[i][1] = f }
        first == CHOOSE i \in mine : \A j \in mine : i <= j
        last == IF flows[f].pc = "done"
                THEN CHOOSE i \in mine : \A j \in mine : i >= j
                ELSE Len(calls)
    IN  SubSeq(calls, first, last)

\* C8: for each created event, the rows the store holds for the id go through
\* pending, processing, then the terminal status, and once the flow has
\* finished the store holds its terminal row.
C8_PersistedInOrder ==
    \A f \in DOMAIN flows :
        /\ Statuses(RowsDuring(f)) =
             IF flows[f].pc # "done" THEN <<"pending", "processing">>
             ELSE <<"pending", "processing", flows[f].status.status>>
        /\ flows[f].pc = "done" =>
             /\ Terminal(flows[f].status.status)
             /\ store[flows[f].message.id] = Some(flows[f].status)

\* C9: in every row the processor writes, processedAt is set exactly in a
\* completed or failed row, error exactly in a failed row, summary exactly in a
\* completed row, where it is the result text routeMessage resolved to.
C9_OptionalFields ==
    \A id \in MessageIds : \A i \in DOMAIN statusCalls[id] :
        LET f == statusCalls[id][i][1]
            row == statusCalls[id][i][2]
        IN  /\ (row.processedAt # Absent) <=> Terminal(row.status)
            /\ (row.error # Absent) <=> (row.status = "failed")
            /\ (row.summary # Absent) <=> (row.status = "completed")
            /\ row.status = "completed" =>
                  /\ flows[f].routed # Absent
                  /\ row.summary = flows[f].routed[1].result

\* C9 witness: a completed row carrying the fallback text of a workflow
\* without summary and a failed row have been written.
C9_Witness ==
    /\ \E id \in MessageIds : \E i \in DOMAIN statusCalls[id] :
          /\ statusCalls[id][i][2].status = "completed"
          /\ statusCalls[id][i][2].summary = Text("Processed via workflow")
    /\ \E id \in MessageIds : \E i \in DOMAIN statusCalls[id] :
          statusCalls[id][i][2].status = "failed"

\* A route matches a query: each matcher is '*' or equals the query's value,
\* and an absent type is matched by '*' only.
RouteMatches(route, endpoint, messageType) ==
    /\ route.endpoint \in {"*", endpoint}
    /\ route.type = "*" \/ (messageType # None /\ route.type = messageType)

\* A route's priority, 0 when it declares none.
PriorityOf(route) == IF route.priority = Absent THEN 0 ELSE route.priority[1]

\* The matching route that no matching route precedes: none has a higher
\* priority, and none of the same priority is declared earlier.
BestMatch(routes, endpoint, messageType) ==
    LET matching == { i \in DOMAIN routes : RouteMatches(routes[i], endpoint, messageType) }
    IN  IF matching = {} THEN Absent
        ELSE Some(routes[CHOOSE i \in matching : \A j \in matching :
                            \/ PriorityOf(routes[j]) < PriorityOf(routes[i])
                            \/ PriorityOf(routes[j]) = PriorityOf(routes[i]) /\ i <= j])

\* C10: every findRoute call returns the first matching route in priority-
\* descending order with ties in declaration order (none when nothing matches),
\* so a higher priority wins over an exact match; a call leaves the configured
\* route list as it was and a repeated call returns what the earlier one did.
C10_FindRoute ==
    /\ [](\A q \in Queries :
            found[q] # Absent =>
                /\ found[q][1].routes = routerConfig.routes
                /\ found[q][1].route = BestMatch(routerConfig.routes, q[1], q[2]))
    /\ [][ /\ routerConfig' = routerConfig
           /\ \A q \in Queries : found[q] # Absent => found'[q] = found[q] ]_vars

\* C10 witness: with an exact-match route of priority 5 declared first and a
\* '*'/'*' route of priority 10 after it, findRoute("inbox", "question")
\* returned the '*'/'*' route, and a query without type was answered too.
C10_Witness ==
    /\ Len(routerConfig.routes) >= 2
    /\ routerConfig.routes[1] = Route("inbox", "question", "workflow", "qaWorkflow", Some(5))
    /\ routerConfig.routes[2] = Route("*", "*", "agent", "fallbackAgent", Some(10))
    /\ found[<<"inbox", "question">>] = Some([route |-> Some(routerConfig.routes[2]),
                                              routes |-> routerConfig.routes])
    /\ found[<<"bugs", None>>] # Absent

\* The handler a message of an endpoint and type is to go to: that of the best
\* matching route, the default handler when no route matches.
ExpectedHandler(endpoint, messageType) ==
    LET best == BestMatch(routerConfig.routes, endpoint, messageType)
    IN  IF best = Absent THEN routerConfig.defaultHandler
        ELSE [handlerType |-> best[1].handlerType, handlerId |-> best[1].handlerId]

\* The Responder invocations made for flow f: the handler ids, in order.
InvokedFor(f) ==
    LET mine == SelectSeq(invocations, LAMBDA inv : inv[1] = f)
    IN  [i \in DOMAIN mine |-> mine[i][2]]

\* The handler id is registered as the kind of Responder the handler names.
Registered(handler) ==
    \/ handler.handlerType = "agent" /\ handler.handlerId \in mastraAgents
    \/ handler.handlerType = "workflow" /\ handler.handlerId \in mastraWorkflows

\* C11: routeMessage goes to the handler of the route findRoute selects and to
\* the default handler exactly when no route matches; every Responder it
\* invokes is that handler, and the handler id it returns is the invoked one.
C11_DispatchesSelectedHandler ==
    \A f \in DOMAIN flows :
        LET m == flows[f].message
            best == BestMatch(routerConfig.routes, m.endpointId, m.frontmatter.type)
        IN  /\ flows[f].handler = ExpectedHandler(m.endpointId, m.frontmatter.type)
            /\ (flows[f].handler = routerConfig.defaultHandler) <=> (best = Absent)
            /\ \A i \in DOMAIN InvokedFor(f) : InvokedFor(f)[i] = flows[f].handler.handlerId
            /\ flows[f].routed # Absent =>
                  /\ InvokedFor(f) # <<>>
                  /\ flows[f].routed[1].handler = InvokedFor(f)[1]

\* C11 witness: one message went to the handler of a matching route and
\* another, which no route matches, to the default handler; both were answered.
C11_Witness ==
    \E f, g \in DOMAIN flows :
        /\ flows[f].routed # Absent /\ flows[f].routed[1].handler = "messageWorkflow"
        /\ flows[g].routed # Absent /\ flows[g].routed[1].handler = "conciergeAgent"
        /\ BestMatch(routerConfig.routes, flows[g].message.endpointId,
                     flows[g].message.frontmatter.type) = Absent

\* C12: when the resolved handler id is not registered as an agent (a
\* workflow), routeMessage fails with 'Agent not found: <id>' ('Workflow not
\* found: <id>') and no Responder is invoked for the message.
C12_HandlerNotFound ==
    \A f \in DOMAIN flows :
        ~Registered(flows[f].handler) =>
            /\ flows[f].thrown # Absent
            /\ flows[f].thrown[1].isError
            /\ flows[f].thrown[1].message =
                 << IF flows[f].handler.handlerType = "agent"
                    THEN "Agent not found: " ELSE "Workflow not found: ",
                    flows[f].handler.handlerId >>
            /\ flows[f].routed = Absent
            /\ InvokedFor(f) = <<>>

\* C12 witness: one flow failed on an unregistered agent and one on an
\* unregistered workflow.
C12_Witness ==
    \E f, g \in DOMAIN flows :
        /\ flows[f].pc = "done" /\ flows[f].handler.handlerType = "agent"
        /\ ~Registered(flows[f].handler)
        /\ flows[g].pc = "done" /\ flows[g].handler.handlerType = "workflow"
        /\ ~Registered(flows[g].handler)

\* C13: a created event leads to at most one Responder invocation, and once
\* its flow has written completed or failed the flow makes no further
\* invocation and no further status write.
C13_NoRetry ==
    /\ [](\A f \in DOMAIN flows : Len(InvokedFor(f)) <= 1)
    /\ [][\A f \in DOMAIN flows :
            flows[f].pc = "done" =>
                /\ flows'[f] = flows[f]
                /\ FlowCalls(f)' = FlowCalls(f)
                /\ InvokedFor(f)' = InvokedFor(f)]_vars

\* C13 witness: a flow failed, and after it another created event was taken up
\* and processed, the failed flow having invoked its Responder once.
C13_Witness ==
    \E f, g \in DOMAIN flows :
        /\ f < g
        /\ flows[f].pc = "done" /\ flows[f].thrown # Absent
        /\ Len(InvokedFor(f)) = 1
        /\ flows[f].status.processedAt[1] < g
        /\ flows[g].pc = "done"

\* C14: a flow whose Responder never answers stays as it is, its message at
\* status processing, and every flow that has begun goes on to its terminal
\* write unless its own Responder never answers.
C14_HungResponderIsolated ==
    /\ [](\A f \in DOMAIN flows :
            flows[f].pc = "hung" =>
                /\ Statuses(FlowCalls(f)) = <<"pending", "processing">>
                /\ OnlyFlowOfId(f) => store[flows[f].message.id][1].status = "processing")
    /\ [][\A f \in DOMAIN flows : flows[f].pc = "hung" => flows'[f] = flows[f]]_vars
    /\ \A f \in FlowIds :
          (f \in DOMAIN flows) ~>
              (/\ f \in DOMAIN flows
               /\ \/ flows[f].pc = "hung"
                  \/ flows[f].pc = "done" /\ Terminal(LastCall(f).status))

\* C14 witness: the Responder of the first flow hangs, its message is at
\* processing, and a flow begun after it has reached a terminal status.
C14_Witness ==
    /\ Len(flows) = 2
    /\ flows[1].pc = "hung"
    /\ store[flows[1].message.id][1].status = "processing"
    /\ flows[2].pc = "done"
    /\ Terminal(store[flows[2].message.id][1].status)

\* The lifecycle calls noted so far end with a start() call (a stop() that
\* has resolved).
LastCall_Is(call) == history # <<>> /\ history[Len(history)].call = call

\* This step is a start() call; this step is a stop() call.
StartCalled ==
    /\ lifecycleCalls' = lifecycleCalls + 1
    /\ Len(history') = Len(history) + 1
    /\ history'[Len(history')].call = "start"
StopCalled == lifecycleCalls' = lifecycleCalls + 1 /\ ~StartCalled

OpenMonitors == {m \in DOMAIN monitors : monitors[m].open}

\* C15: stop() cancels nothing that has begun. A start() or stop() step leaves
\* every flow, status row and Responder invocation as it is; a flow left
\* unfinished when a stop() resolved and finished since has written pending,
\* processing and its terminal status; and while no monitor is open a written
\* file starts no new handleFile call.
C15_StopCancelsNothing ==
    /\ [](\A i \in DOMAIN history : \A f \in history[i].unfinished :
            /\ flows[f].pc \in {"awaiting", "rejected", "done"}
            /\ flows[f].pc = "done" =>
                  /\ Len(FlowCalls(f)) = 3
                  /\ Terminal(LastCall(f).status)
                  /\ OnlyFlowOfId(f) => store[flows[f].message.id] = Some(LastCall(f)))
    /\ [][ /\ (lifecycleCalls' # lifecycleCalls \/ loops' # loops) =>
                UNCHANGED <<store, statusCalls, flows, invocations, tasks, events>>
           /\ OpenMonitors = {} => Len(tasks') = Len(tasks) ]_vars

\* C15 witness: a stop() resolved, with every monitor closed, while a flow was
\* awaiting its Responder, and that flow has since been completed.
C15_Witness ==
    \E i \in DOMAIN history :
        /\ history[i].call = "stop"
        /\ OpenMonitors = {}
        /\ \E f \in history[i].unfinished :
              flows[f].pc = "done" /\ flows[f].routed # Absent

\* The endpoints of the mailbox configuration by direction, and the paths
\* lying in an outbox endpoint's directory.
Watchable == {e \in Range(defaultFolderConfig.endpoints) :
                e.direction \in {"inbox", "bidirectional"}}
OutboxIds == {e.id : e \in {x \in Range(defaultFolderConfig.endpoints) :
                                x.direction = "outbox"}}
OutboxPaths == {p \in Paths :
                  \E e \in Range(defaultFolderConfig.endpoints) :
                      e.id \in OutboxIds /\ e.path = PathInfo[p].dir}

C17_Idempotent ==
    [][ /\ (StartCalled /\ isRunning) =>
              UNCHANGED <<monitors, watchers, isRunning, loops>>
        /\ (StopCalled /\ ~isRunning /\ lifecycleCalls > 0) =>
              /\ UNCHANGED <<monitors, watchers, isRunning>>
              /\ (loops = <<>> /\ LastCall_Is("stop")) =>
                    /\ loops' = <<>>
                    /\ Len(history') = Len(history) + 1
                    /\ history'[Len(history')].call = "stop" ]_vars

\* C17 witness: start(), then stop() resolved, then stop() called again and
\* resolved, with the three monitors of the first start() closed.
C17_Witness ==
    /\ Len(history) = 3
    /\ history[1].call = "start" /\ history[2].call = "stop" /\ history[3].call = "stop"
    /\ Len(monitors) = 3
    /\ OpenMonitors = {}
    /\ loops = <<>>

\* C18: once a stop() call has resolved the watcher holds no open monitor,
\* whatever the interleaving of start() and stop() calls.
C18_StopReleasesAll ==
    [][ (Len(history') > Len(history) /\ history'[Len(history')].call = "stop")
            => \A m \in DOMAIN monitors' : ~monitors'[m].open ]_vars

\* The handleFile calls about a path that have emitted, the events about a
\* path that come from handleFile, and the number of events in all.
DoneTasks(p) == {t \in DOMAIN tasks : tasks[t].filePath = p /\ tasks[t].pc = "done"}
FileEvents(p) == {i \in DOMAIN events[p] : events[p][i].type # "message:deleted"}
RECURSIVE EventCount(_, _)
EventCount(es, ps) ==
    IF ps = {} THEN 0
    ELSE LET p == CHOOSE x \in ps : TRUE
         IN  Len(es[p]) + EventCount(es, ps \ {p})

\* The event type an add ('created') or change ('updated') callback may emit
\* besides the error event.
TypeFor(action) == IF action = "created" THEN "message:created" ELSE "message:updated"

\* C19: each add callback for a matching file emits exactly one event, created
\* or error, and each change callback exactly one, updated or error: a
\* handleFile call emits once, when it ends, and the events of a path that are
\* not deletions are one for one those of its ended calls. One write fires
\* only add callbacks or only change callbacks, never both.
C19_OneEventPerCallback ==
    /\ [](/\ \A t \in DOMAIN tasks :
                /\ (tasks[t].pc = "done") <=> (tasks[t].event # 0)
                /\ tasks[t].pc = "done" =>
                      /\ tasks[t].event \in FileEvents(tasks[t].filePath)
                      /\ TaskEvent(t).type \in {TypeFor(tasks[t].action), "error"}
          /\ \A p \in Paths :
                /\ \A t, u \in DoneTasks(p) : tasks[t].event = tasks[u].event => t = u
                /\ Cardinality(FileEvents(p)) = Cardinality(DoneTasks(p)))
    /\ [][ /\ \A t \in DOMAIN tasks :
                /\ tasks[t].pc = "done" => tasks'[t] = tasks[t]
                /\ (tasks[t].pc # "done" /\ tasks'[t].pc = "done") =>
                      /\ EventCount(events', Paths) = EventCount(events, Paths) + 1
                      /\ Len(Emitted(tasks[t].filePath)) = 1
           /\ \A t, u \in (DOMAIN tasks') \ (DOMAIN tasks) :
                /\ tasks'[t].action = tasks'[u].action
                /\ tasks'[t].filePath = tasks'[u].filePath
                /\ tasks'[t].action = "created" <=> files[tasks'[t].filePath] = Absent ]_vars

\* C19 witness: inbox/a.md was added and then changed; the add callback
\* emitted a created event and the change callback an updated event, and
\* these are the only two events about the file.
C19_Witness ==
    /\ Cardinality(DoneTasks("inbox/a.md")) = 2
    /\ Len(events["inbox/a.md"]) = 2
    /\ events["inbox/a.md"][1].type = "message:created"
    /\ events["inbox/a.md"][2].type = "message:updated"

\* The paths that do not match their endpoint's configured pattern: every
\* endpoint of defaultFolderConfig has the pattern '**/*.md'.
NotMatching == {p \in Paths : ~PathInfo[p].md}

C21_WatcherErrorOnlyLogged ==
    /\ [](/\ Len(errorLog) = Len(watcherErrors)
          /\ \A i \in DOMAIN errorLog :
                errorLog[i] = <<"Folder watcher error:", watcherErrors[i].error>>
          /\ \A p \in Paths : \A i \in DOMAIN events[p] :
                events[p][i].type = "error" =>
                    \A e \in WatchFailures : events[p][i].error # e.message)
    /\ [][watcherErrors' # watcherErrors =>
            /\ Len(watcherErrors') = Len(watcherErrors) + 1
            /\ Len(errorLog') = Len(errorLog) + 1
            /\ UNCHANGED <<events, tasks, processorVars, lifecycleVars, files>>]_vars
    /\ \A f \in FlowIds :
          (f \in DOMAIN flows) ~>
              (/\ f \in DOMAIN flows
               /\ \/ flows[f].pc = "hung"
                  \/ flows[f].pc = "done" /\ Terminal(LastCall(f).status))

\* C21 witness: the inbox monitor failed, and a file that arrived afterwards
\* at another endpoint was processed to completed.
C21_Witness ==
    \E i \in DOMAIN watcherErrors : \E f \in DOMAIN flows :
        /\ monitors[watcherErrors[i].monitor].endpoint = "inbox"
        /\ f > watcherErrors[i].flowsBefore
        /\ flows[f].message.endpointId # "inbox"
        /\ flows[f].pc = "done"
        /\ LastCall(f).status = "completed"
        /\ isRunning

\* The parseFile calls that returned a Message.
WellFormed == {q \in ParseQueries : parseResults[q] # Absent /\ parseResults[q][1].ok}

\* C22 as claimed: the Message of a well-formed file whose metadata has an id
\* carries exactly that id; without an id field it carries the file's path
\* relative to the mailbox root.
C22_IdFromMetadata ==
    \A q \in WellFormed :
        LET id == q[2].frontmatter.id
        IN  parseResults[q][1].message.id = IF id # None THEN id ELSE q[1]

\* C22: the Message of a well-formed file carries the id of its metadata when
\* that is a non-empty string; when the metadata has no id field, which only a
\* configuration that does not require id lets through, or an empty id, it
\* carries the file's path relative to the mailbox root.
C22_NonEmptyIdFromMetadata ==
    \A q \in WellFormed :
        LET id == q[2].frontmatter.id
        IN  parseResults[q][1].message.id = IF id \notin {None, ""} THEN id ELSE q[1]

\* C22 witness: under one configuration parseFile returned a Message with the
\* id of the metadata for one file and with the relative path for a file that
\* has no id field.
C22_Witness ==
    /\ \E q \in WellFormed :
          q[2].frontmatter.id = "m1" /\ parseResults[q][1].message.id = "m1"
    /\ \E q \in WellFormed :
          q[2].frontmatter.id = None /\ parseResults[q][1].message.id = q[1]

\* C23: the unlink of a matching file makes the watcher emit, for each unlink
\* callback (one per open monitor of its directory), exactly one deleted event with the file's path and
\* the endpoint's id, and nothing else: no handleFile call begins or moves, so
\* nothing is read or parsed, and no error event comes out of the step. Every
\* deleted event there is carries its path and the id of the path's endpoint.
C23_DeleteEmitsDeleted ==
    /\ [](\A p \in Paths : \A i \in DOMAIN events[p] :
            events[p][i].type = "message:deleted" =>
                /\ events[p][i].filePath = p
                /\ events[p][i].endpointId = PathInfo[p].dir)
    /\ [][\A p \in {q \in Paths : isMarkdownFile(q)} :
            (files[p] # Absent /\ files'[p] = Absent) =>
                /\ tasks' = tasks
                /\ \A q \in Paths \ {p} : events'[q] = events[q]
                /\ Len(Emitted(p)) = Cardinality(MonitorsOf(p))
                /\ \A i \in DOMAIN Emitted(p) :
                      Emitted(p)[i] = [type |-> "message:deleted", filePath |-> p,
                                       endpointId |-> PathInfo[p].dir]
                /\ UNCHANGED <<store, statusCalls, flows>> ]_vars

\* C23 witness: a file of the bugs endpoint that could not be parsed (its
\* add gave an error event) was removed, and its removal gave a deleted event.
C23_Witness ==
    /\ Len(events["bugs/b.md"]) = 2
    /\ events["bugs/b.md"][1].type = "error"
    /\ events["bugs/b.md"][2] = [type |-> "message:deleted", filePath |-> "bugs/b.md",
                                 endpointId |-> "bugs"]
    /\ files["bugs/b.md"] = Absent

\* The write() calls whose endpointId names no configured endpoint.
UnknownEndpoint(w) ==
    \A e \in Range(writerConfig.endpoints) : e.id # writes[w].options.endpointId

\* C24: write() for an endpointId that names no configured endpoint fails with
\* 'Endpoint not found: <id>', returns no path, and neither creates a
\* directory nor writes a file: the call's own step changes neither, no later
\* step belongs to it, and every directory and file there is comes from a call
\* for a configured endpoint.
C24_UnknownEndpointFails ==
    /\ [](/\ \A w \in DOMAIN writes :
                UnknownEndpoint(w) =>
                    /\ writes[w].pc = "rejected"
                    /\ writes[w].thrown =
                          Some(ErrorObject(<<"Endpoint not found: ",
                                             writes[w].options.endpointId>>))
                    /\ writes[w].returned = Absent
          /\ \A i \in DOMAIN writeLog : ~UnknownEndpoint(writeLog[i].call)
          /\ \A d \in dirs : \E w \in DOMAIN writes :
                ~UnknownEndpoint(w) /\ writes[w].filePath.dir = d)
    /\ [][(/\ Len(writes') > Len(writes)
            /\ \A e \in Range(writerConfig.endpoints) :
                  e.id # writes'[Len(writes')].options.endpointId)
            => UNCHANGED <<dirs, writeLog>>]_vars

\* C24 witness: a write() for the endpoint 'nowhere' was rejected while
\* another call wrote its file.
C24_Witness ==
    /\ \E w \in DOMAIN writes : UnknownEndpoint(w) /\ writes[w].pc = "rejected"
    /\ \E w \in DOMAIN writes : writes[w].pc = "done"
    /\ Len(writeLog) = 1

\* The write() calls that got past the endpoint lookup, and the value the
\* metadata of call w holds under a key (Absent when it has no such key).
Accepted == {w \in DOMAIN writes : writes[w].pc # "rejected"}
Supplied(w) == writes[w].options.frontmatter
ValuesAt(entries, key) == SelectSeq(entries, LAMBDA e : e[1] = key)

\* C25: in the metadata write() serializes every key occurs once; a key the
\* caller supplies carries the caller's value, id and timestamp included; id
\* and timestamp the caller does not supply carry the generated id and
\* timestamp; and the lines of the file are these entries, in order.
C25_CallerMetadataWins ==
    \A w \in Accepted :
        LET meta == writes[w].frontmatter
            keys == {meta[i][1] : i \in DOMAIN meta}
        IN  /\ keys = {"id", "timestamp"} \cup {Supplied(w)[i][1] : i \in DOMAIN Supplied(w)}
            /\ \A k \in keys : Len(ValuesAt(meta, k)) = 1
            /\ \A i \in DOMAIN Supplied(w) :
                  ValuesAt(meta, Supplied(w)[i][1])[1][2] = Supplied(w)[i][2]
            /\ ValuesAt(Supplied(w), "id") = <<>> =>
                  ValuesAt(meta, "id")[1][2] = Str(Uuids[w])
            /\ ValuesAt(Supplied(w), "timestamp") = <<>> =>
                  ValuesAt(meta, "timestamp")[1][2] = Str(Stamps[w])
            /\ writes[w].fileContent.yamlLines =
                  [i \in DOMAIN meta |-> <<meta[i][1], JSONstringify(meta[i][2])>>]
            /\ \A i \in DOMAIN writeLog :
                  writeLog[i].call = w => writeLog[i].fileContent = writes[w].fileContent

\* C25 witness: a call that supplied id "X" and no timestamp wrote a file
\* whose first line is the caller's id and whose second is the generated
\* timestamp.
C25_Witness ==
    \E i \in DOMAIN writeLog :
        LET w == writeLog[i].call
        IN  /\ ValuesAt(Supplied(w), "id") = << <<"id", Str("X")>> >>
            /\ writeLog[i].fileContent.yamlLines[1] = <<"id", [quoted |-> TRUE, text |-> "X"]>>
            /\ writeLog[i].fileContent.yamlLines[2] =
                  <<"timestamp", [quoted |-> TRUE, text |-> Stamps[w]]>>

\* C26: with no filename given (none, or an empty one) the file is named
\* <id>.md, id being the id written in the file's metadata; a filename that
\* is given is used as it is.
C26_DefaultFilename ==
    \A w \in Accepted :
        IF writes[w].options.filename \in {None, ""}
        THEN writes[w].filePath.name =
                <<ValuesAt(writes[w].frontmatter, "id")[1][2].text, ".md">>
        ELSE writes[w].filePath.name = <<writes[w].options.filename>>

\* The text the file at a path holds: that of the last writeFile to it.
FileAt(filePath) ==
    LET at == {i \in DOMAIN writeLog : writeLog[i].filePath = filePath}
    IN  IF at = {} THEN Absent
        ELSE Some(writeLog[CHOOSE i \in at : \A j \in at : j <= i])

\* Every accepted write() call goes through without failing: it is at mkdir,
\* at writeFile with its directory there, or has returned its path with its
\* file written.
WritesSucceed ==
    \A w \in Accepted :
        /\ writes[w].pc \in {"mkdir", "writeFile", "done"}
        /\ writes[w].thrown = Absent
        /\ writes[w].pc \in {"writeFile", "done"} => writes[w].filePath.dir \in dirs
        /\ writes[w].pc = "done" =>
              /\ writes[w].returned = Some(writes[w].filePath)
              /\ \E i \in DOMAIN writeLog :
                    writeLog[i].call = w /\ writeLog[i].fileContent = writes[w].fileContent

\* C27 as claimed: write() calls, whose ids always differ, never disturb one
\* another: each succeeds, no two write the same file, and the file of a call
\* that has returned holds that call's text.
C27_ConcurrentWritesSafe ==
    /\ WritesSucceed
    /\ \A w, v \in Accepted :
          (w # v /\ writes[w].id # writes[v].id) => writes[w].filePath # writes[v].filePath
    /\ \A w \in Accepted :
          writes[w].pc = "done" =>
              FileAt(writes[w].filePath)[1].fileContent = writes[w].fileContent

\* C27: write() calls with different target paths never disturb one another,
\* and calls that give no filename always have different paths: each accepted
\* call succeeds; two calls share a path only if both give the same filename
\* for the same endpoint directory; and the file of a returned call whose path
\* no other call shares holds that call's text, however the calls' mkdir and
\* writeFile steps interleave.
C27_DistinctPathsSafe ==
    /\ WritesSucceed
    /\ \A w, v \in Accepted :
          (w # v /\ writes[w].filePath = writes[v].filePath) =>
              /\ writes[w].options.filename \notin {None, ""}
              /\ writes[w].options.filename = writes[v].options.filename
    /\ \A w \in Accepted :
          (/\ writes[w].pc = "done"
           /\ \A v \in Accepted \ {w} : writes[v].filePath # writes[w].filePath) =>
              /\ FileAt(writes[w].filePath)[1].call = w
              /\ FileAt(writes[w].filePath)[1].fileContent = writes[w].fileContent

\* C27 witness: two calls that gave no filename wrote into the same directory
\* and each file holds its own call's text, the first-called one written last.
C27_Witness ==
    /\ Len(writeLog) = 2
    /\ writeLog[1].call = 2 /\ writeLog[2].call = 1
    /\ writeLog[1].filePath.dir = writeLog[2].filePath.dir
    /\ \A w \in {1, 2} :
          /\ writes[w].options.filename = None
          /\ writes[w].pc = "done"
          /\ FileAt(writes[w].filePath)[1].fileContent = writes[w].fileContent
    /\ writes[1].fileContent # writes[2].fileContent

\* C28: a file write() wrote, read back by parseFile, has the body that was
\* written, up to trimming, and under each key the caller supplied the value
\* the caller supplied.
C28_RoundTrip ==
    \A i \in DOMAIN writeLog :
        LET w == writeLog[i].call
            back == ReadBack(writeLog[i].fileContent)
        IN  /\ back.content = trim(writes[w].options.content)
            /\ \A k \in DOMAIN Supplied(w) :
                  ValuesAt(back.frontmatter, Supplied(w)[k][1]) = <<Supplied(w)[k]>>

\* The status last passed to updateMessageStatus for this id among the first n
\* calls and after the last clearStatusStore among them, if there is one.
LastUpdate(n, id) ==
    LET clears == {i \in 1..n : storeLog[i].op = "clear"}
        from == IF clears = {} THEN 0
                ELSE CHOOSE i \in clears : \A j \in clears : j <= i
        updates == {i \in (from + 1)..n :
                      storeLog[i].op = "update" /\ storeLog[i].status[1].id = id}
    IN  IF updates = {} THEN Absent
        ELSE storeLog[CHOOSE i \in updates : \A j \in updates : j <= i].status

\* An optional field that came back against the one passed in: no value where
\* none was passed, the value passed otherwise.
SameOptional(returned, passed) ==
    /\ returned.isNull <=> passed = Absent
    /\ ~returned.isNull => returned.value = passed

\* A returned status object is the status that was passed in: the required
\* fields are equal, and each optional field has the value passed or, where
\* none was passed, no value.
SameStatus(result, status) ==
    /\ result.id = status.id
    /\ result.status = status.status
    /\ result.endpoint = status.endpoint
    /\ result.filename = status.filename
    /\ result.createdAt = status.createdAt
    /\ SameOptional(result.processedAt, status.processedAt)
    /\ SameOptional(result.error, status.error)
    /\ SameOptional(result.summary, status.summary)

StoredBefore(i) ==
    { LastUpdate(i - 1, id)[1] :
        id \in {x \in MessageIds : LastUpdate(i - 1, x) # Absent} }

\* C30: getAllMessageStatuses(filterStatus) resolves to the stored statuses
\* whose status is filterStatus, all stored statuses without a filter, each
\* once and no other, with created-at never increasing along the list, and to
\* the empty list when nothing matches.
C30_ListReturnsMatching ==
    \A i \in DOMAIN storeLog :
        storeLog[i].op = "list" =>
            LET filterStatus == storeLog[i].filterStatus
                matching == IF filterStatus = None THEN StoredBefore(i)
                            ELSE {s \in StoredBefore(i) : s.status = filterStatus}
                result == storeLog[i].result
            IN  /\ Len(result) = Cardinality(matching)
                /\ \A s \in matching :
                      Cardinality({j \in DOMAIN result : SameStatus(result[j], s)}) = 1
                /\ \A j, k \in DOMAIN result :
                      j < k => result[j].createdAt >= result[k].createdAt
                /\ matching = {} => result = <<>>

\* C30 witness: with a completed status and two pending ones stored, the
\* older pending one written before the newer, the list of pending statuses is
\* the newer one followed by the older one.
C30_Witness ==
    /\ Len(storeLog) = 4
    /\ \A i \in 1..3 : storeLog[i].op = "update"
    /\ storeLog[1].status[1].status = "completed"
    /\ storeLog[2].status[1].id = "m1"
    /\ storeLog[3].status[1].id = "inbox/a.md"
    /\ storeLog[4].op = "list" /\ storeLog[4].filterStatus = "pending"
    /\ Len(storeLog[4].result) = 2
    /\ storeLog[4].result[1].id = "inbox/a.md" /\ storeLog[4].result[1].createdAt = 3
    /\ storeLog[4].result[2].id = "m1" /\ storeLog[4].result[2].createdAt = 1

\* C31: a routeMessage call whose endpoint id names no configured endpoint
\* rejects and no handler is invoked for it.
C31_UnknownEndpointRejected ==
    \A c \in DOMAIN routeCalls :
        routeCalls[c].endpoint \notin EndpointIds =>
            /\ routeCalls[c].pc = "rejected"
            /\ ~routeCalls[c].invoked

\* C32: a routeMessage call whose workflow run resolved has succeeded, with
\* the result text 'Processed via workflow' when the run's result is null, no
\* object or an object without a summary key, and String(summary) when the
\* result has a summary key.
C32_WorkflowSummaryFallback ==
    \A c \in DOMAIN routeCalls :
        routeCalls[c].response # Absent =>
            LET result == routeCalls[c].response[1]
                returned == routeCalls[c].returned
            IN  /\ routeCalls[c].pc = "resolved"
                /\ returned # Absent
                /\ returned[1].handler = routeCalls[c].handler.handlerId
                /\ (~result.isObject \/ result.summary = Absent) =>
                      returned[1].result = <<"Processed via workflow">>
                /\ (result.isObject /\ result.summary # Absent) =>
                      returned[1].result = <<result.summary[1].repr>>

\* C32 witness: one workflow run resolved to null and another to an object
\* with a summary, and both calls returned.
C32_Witness ==
    /\ Len(routeCalls) = 2
    /\ \A c \in {1, 2} : routeCalls[c].pc = "resolved" /\ routeCalls[c].response # Absent
    /\ ~routeCalls[1].response[1].isObject
    /\ routeCalls[1].returned[1].result = <<"Processed via workflow">>
    /\ routeCalls[2].response[1].summary = Some(JsString("Workflow result"))
    /\ routeCalls[2].returned[1].result = <<"Workflow result">>

\* C33: a flow whose Responder has been invoked has issued its pending write
\* and then its processing write; the id of its message has a status row, and
\* neither the row nor the last write issued for that id says pending.
C33_InvokedAfterWrites ==
    \A i \in DOMAIN invocations :
        LET f == invocations[i][1]
            id == flows[f].message.id
        IN  /\ Len(FlowCalls(f)) >= 2
            /\ SubSeq(Statuses(FlowCalls(f)), 1, 2) = <<"pending", "processing">>
            /\ store[id] # Absent
            /\ store[id][1].status # "pending"
            /\ statusCalls[id][Len(statusCalls[id])][2].status # "pending"

\* C33 witness: a Responder has been invoked and has not answered; the flow's
\* two writes are issued and the row says processing.
C33_Witness ==
    \E i \in DOMAIN invocations :
        LET f == invocations[i][1]
        IN  /\ flows[f].pc = "awaiting"
            /\ Statuses(FlowCalls(f)) = <<"pending", "processing">>
            /\ store[flows[f].message.id][1].status = "processing"

\* C34: a flow for a created message whose path has an empty last portion
\* has written pending and then failed, with the error 'Could not extract
\* filename from path', has written nothing else, has invoked no Responder,
\* and is over.
C34_EmptyFilenameFails ==
    \A f \in DOMAIN flows :
        flows[f].message.filePath = "" =>
            /\ Statuses(FlowCalls(f)) = <<"pending", "failed">>
            /\ FlowCalls(f)[2][2].error = <<"Could not extract filename from path">>
            /\ FlowCalls(f)[1][2].filename = ""
            /\ ~WritesElsewhere(f)
            /\ \A i \in DOMAIN invocations : invocations[i][1] # f
            /\ flows[f].pc = "done"

\* C34 witness: a created event for such a path was handled, for a message
\* whose type has a route to a registered workflow; its row says failed.
C34_Witness ==
    \E f \in DOMAIN flows :
        /\ flows[f].message.filePath = ""
        /\ flows[f].message.frontmatter.type = "question"
        /\ store[flows[f].message.id] # Absent
        /\ store[flows[f].message.id][1].status = "failed"
        /\ store[flows[f].message.id][1].error = <<"Could not extract filename from path">>
        /\ invocations = <<>>

\* C35: every status a flow writes carries the id and endpoint of its
\* message, the last portion of its path as filename, and the createdAt of
\* the flow's first write.
C35_IdentityFieldsKept ==
    \A f \in DOMAIN flows :
        \A i \in DOMAIN FlowCalls(f) :
            LET written == FlowCalls(f)[i][2]
            IN  /\ written.id = flows[f].message.id
                /\ written.endpoint = flows[f].message.endpointId
                /\ written.filename = basename(flows[f].message.filePath)
                /\ written.createdAt = FlowCalls(f)[1][2].createdAt

\* C35 witness: a flow wrote three statuses, the last one completed with a
\* processedAt later than createdAt and a summary, the first with neither.
C35_Witness ==
    \E f \in DOMAIN flows :
        /\ Len(FlowCalls(f)) = 3
        /\ FlowCalls(f)[1][2].processedAt = Absent
        /\ FlowCalls(f)[1][2].summary = Absent
        /\ FlowCalls(f)[3][2].status = "completed"
        /\ FlowCalls(f)[3][2].summary # Absent
        /\ FlowCalls(f)[3][2].processedAt # Absent
        /\ FlowCalls(f)[3][2].processedAt[1] > FlowCalls(f)[3][2].createdAt

\* C36: a file that was in a watched directory before start() was called and
\* has not been written since has no created event, no processing flow, and
\* the id in its metadata has no status row and no status write.
C36_InitialFilesIgnored ==
    \A p \in InitiallyPresent :
        /\ \A i \in DOMAIN events[p] : events[p][i].type # "message:created"
        /\ \A f \in DOMAIN flows : flows[f].message.filePath # p
        /\ store[files[p][1].frontmatter.id] = Absent
        /\ statusCalls[files[p][1].frontmatter.id] = <<>>

\* The fields a configuration lists for an endpoint, the mailbox defaults
\* first, and the positions of those flagged required whose key a metadata
\* block lacks.
ListedFields(config, endpointId) ==
    config.defaultFrontmatter \o EndpointById(config, endpointId).requiredFrontmatter

MissingAt(fields, frontmatter) ==
    {i \in DOMAIN fields : fields[i].required /\ frontmatter[fields[i].name] = None}

\* C37: parseFile fails exactly when the metadata lacks the key of a field
\* flagged required, whatever the values of the keys it has and whatever
\* fields are listed without the flag, and the error then names the first
\* such field, the mailbox defaults coming before the endpoint's own.
C37_PresenceOfRequiredOnly ==
    \A q \in ParseQueries :
        parseResults[q] # Absent =>
            LET fields == ListedFields(parseConfig, PathInfo[q[1]].dir)
                missing == MissingAt(fields, q[2].frontmatter)
                result == parseResults[q][1]
            IN  /\ result.ok <=> missing = {}
                /\ ~result.ok =>
                      LET first == CHOOSE i \in missing : \A j \in missing : i <= j
                      IN  result.thrown.message =
                            <<"Missing required frontmatter field: ", fields[first].name>>

\* C37 witness: under the default flags a bugs file lacking id and severity
\* failed with an error naming id, and one with an empty id and a timestamp
\* that is no date passed.
C37_Witness ==
    /\ parseConfig = watchConfig
    /\ \E q \in ParseQueries :
          /\ q[1] = "bugs/b.md"
          /\ q[2].frontmatter.id = None /\ q[2].frontmatter.severity = None
          /\ parseResults[q] # Absent
          /\ ~parseResults[q][1].ok
          /\ parseResults[q][1].thrown.message = <<"Missing required frontmatter field: ", "id">>
    /\ \E q \in ParseQueries :
          /\ q[1] = "bugs/b.md"
          /\ q[2].frontmatter.id = "" /\ q[2].frontmatter.timestamp = "t"
          /\ parseResults[q] # Absent
          /\ parseResults[q][1].ok

\* The handleFile calls that have emitted a created or updated event.
Delivered ==
    {t \in DOMAIN tasks :
        /\ tasks[t].pc = "done"
        /\ events[tasks[t].filePath][tasks[t].event].type
             \in {"message:created", "message:updated"}}

\* C38: for one file, a created or updated event is emitted in the order of
\* the callbacks: every event emitted for the file between the add or change
\* callback and the event that callback's handleFile emits comes from an
\* earlier callback, so none is the deleted event of a later unlink and none
\* the event of a later add or change.
C38_EventsInCallbackOrder ==
    \A t \in Delivered :
        \A i \in (tasks[t].fired + 1)..(tasks[t].event - 1) :
            /\ events[tasks[t].filePath][i].type # "message:deleted"
            /\ \E s \in 1..(t - 1) :
                  /\ tasks[s].filePath = tasks[t].filePath
                  /\ tasks[s].pc = "done"
                  /\ tasks[s].event = i

====
